---- MODULE Spec2Model ----
(***************************************************************************)
(* A model of garmin-node-service (src/server.js): the record reshaper     *)
(* (pickFields, flattenActivityDetail, transformSplitSummaries,            *)
(* buildWorkoutResponse), the workout-authoring translator                 *)
(* (validateWorkoutPayload, parsePaceToMps, buildGarminWorkout) and the    *)
(* POST /garmin/workout/create handler.                                    *)
(*                                                                         *)
(* JavaScript values are tagged records: t is the value's kind.  A plain   *)
(* object is an ordered list of own properties (insertion order), a read   *)
(* of a property or an `in` test falls through to Object.prototype, and a  *)
(* thrown exception is the value Throw, which every caller propagates.     *)
(***************************************************************************)
EXTENDS Integers, Sequences, FiniteSets, TLC

VARIABLES
    fn,      \* the function applied to input ("none" before the call)
    input,   \* the arguments of the call
    output,  \* the value the call returned, or Throw
    pc,      \* POST /garmin/workout/create: the handler's position
    req,     \* POST /garmin/workout/create: the request
    calls,   \* POST /garmin/workout/create: the calls made so far, in order
    resp,    \* POST /garmin/workout/create: the response sent (status 0: none)
    frame,   \* POST /garmin/workout/create: the locals alive across the awaits
    lastPasswordLoginAttemptByUsername,  \* the cooldown map: username -> time marked
    now      \* Date.now(), in milliseconds

vars == <<fn, input, output, pc, req, calls, resp, frame,
          lastPasswordLoginAttemptByUsername, now>>
pureVars == <<fn, input, output>>
httpVars == <<pc, req, calls, resp, frame>>
svcVars == <<lastPasswordLoginAttemptByUsername, now>>

-----------------------------------------------------------------------------
(* JavaScript values *)

Undefined == [t |-> "undefined"]
Null == [t |-> "null"]
Throw == [t |-> "throw"]
Bool(b) == [t |-> "boolean", b |-> b]
\* a finite number is the fraction n / d in lowest terms, d > 0; an integer has d = 1
Num(n) == [t |-> "number", n |-> n, d |-> 1]
NaN == [t |-> "NaN"]
Str(s) == [t |-> "string", s |-> s]
Arr(a) == [t |-> "array", a |-> a]
Obj(o) == [t |-> "object", o |-> o]
\* a built-in function object, such as Object.prototype.toString
Fun(name) == [t |-> "function", name |-> name]
EmptyObj == Obj(<<>>)
Prop(k, v) == [k |-> k, v |-> v]

IsThrow(v) == v.t = "throw"

\* ToBoolean: false, 0, NaN, "", null and undefined are falsy
Truthy(v) ==
    CASE v.t = "undefined" -> FALSE
      [] v.t = "null" -> FALSE
      [] v.t = "boolean" -> v.b
      [] v.t = "number" -> v.n # 0
      [] v.t = "NaN" -> FALSE
      [] v.t = "string" -> v.s # ""
      [] OTHER -> TRUE

\* typeof v === "object"
TypeofObject(v) == v.t \in {"object", "array", "null"}

\* v can stand right of `in` and be destructured without a TypeError
IsObjectLike(v) == v.t \in {"object", "array", "function"}

\* the names every plain object inherits from Object.prototype
ObjectPrototypeKeys ==
    {"constructor", "hasOwnProperty", "isPrototypeOf", "propertyIsEnumerable",
     "toLocaleString", "toString", "valueOf"}

OwnKeys(v) == IF v.t = "object" THEN {v.o[i].k : i \in 1..Len(v.o)} ELSE {}

HasOwn(v, k) == k \in OwnKeys(v)

OwnIndex(v, k) == CHOOSE i \in 1..Len(v.o) : v.o[i].k = k

\* `k in v` for an object v
In(k, v) == HasOwn(v, k) \/ k \in ObjectPrototypeKeys

\* v[k] or v.k for a v that is neither null nor undefined
GetProp(v, k) ==
    IF HasOwn(v, k) THEN v.o[OwnIndex(v, k)].v
    ELSE IF k \in ObjectPrototypeKeys THEN Fun(k)
    ELSE Undefined

\* v[k] = x on a plain object: an own property keeps its place, a new one is appended
SetProp(v, k, x) ==
    IF HasOwn(v, k)
    THEN Obj([i \in 1..Len(v.o) |-> IF v.o[i].k = k THEN Prop(k, x) ELSE v.o[i]])
    ELSE Obj(Append(v.o, Prop(k, x)))

\* { ...target, ...src }: the own properties of src, in order, over target: a name
\* target has keeps its place and takes the value of src, a new name is appended;
\* a src that is no plain object (null, undefined, a number) adds nothing
Spread(target, src) ==
    IF src.t = "object"
    THEN Obj([i \in 1..Len(target.o) |->
                 IF HasOwn(src, target.o[i].k)
                 THEN Prop(target.o[i].k, GetProp(src, target.o[i].k))
                 ELSE target.o[i]]
             \o SelectSeq(src.o, LAMBDA p : ~HasOwn(target, p.k)))
    ELSE target

\* const { <names>, ...rest } = v: the own properties of v not named
RestWithout(v, names) ==
    IF v.t = "object" THEN Obj(SelectSeq(v.o, LAMBDA p : p.k \notin names)) ELSE EmptyObj

UpperLetters == "ABCDEFGHIJKLMNOPQRSTUVWXYZ"
LowerLetters == "abcdefghijklmnopqrstuvwxyz"

CharAt(s, i) == SubSeq(s, i, i)

LowerChar(c) ==
    IF \E i \in 1..Len(UpperLetters) : CharAt(UpperLetters, i) = c
    THEN CharAt(LowerLetters, CHOOSE i \in 1..Len(UpperLetters) : CharAt(UpperLetters, i) = c)
    ELSE c

RECURSIVE ToLowerCase(_)
\* String.prototype.toLowerCase
ToLowerCase(s) ==
    IF s = "" THEN "" ELSE LowerChar(CharAt(s, 1)) \o ToLowerCase(SubSeq(s, 2, Len(s)))

Abs(n) == IF n < 0 THEN -n ELSE n

RECURSIVE Gcd(_, _)
Gcd(a, b) == IF b = 0 THEN a ELSE Gcd(b, a % b)

\* the number n / d (d # 0)
Rat(n, d) ==
    LET g == Gcd(Abs(n), Abs(d))
        sgn == IF d < 0 THEN -1 ELSE 1
    IN  [t |-> "number", n |-> sgn * (n \div g), d |-> sgn * (d \div g)]

\* a < b, a <= b on finite numbers
NumLess(a, b) == a.n * b.d < b.n * a.d
NumLeq(a, b) == a.n * b.d <= b.n * a.d

\* Number.isFinite(v): v is a number and neither NaN nor an infinity
NumberIsFinite(v) == v.t = "number"

\* v ?? d
Coalesce(v, d) == IF v.t \in {"undefined", "null"} THEN d ELSE v

\* v || d
OrElse(v, d) == IF Truthy(v) THEN v ELSE d

\* table[key] for a key that is any value: only a string names a property here
Lookup(table, key) == IF key.t = "string" THEN GetProp(table, key.s) ELSE Undefined

WhiteSpace == {" "}
Digits == "0123456789"

IsDigit(c) == \E i \in 1..Len(Digits) : CharAt(Digits, i) = c

DigitValue(c) == (CHOOSE i \in 1..Len(Digits) : CharAt(Digits, i) = c) - 1

RECURSIVE TrimStart(_)
TrimStart(s) ==
    IF s # "" /\ CharAt(s, 1) \in WhiteSpace THEN TrimStart(SubSeq(s, 2, Len(s))) ELSE s

RECURSIVE TrimEnd(_)
TrimEnd(s) ==
    IF s # "" /\ CharAt(s, Len(s)) \in WhiteSpace THEN TrimEnd(SubSeq(s, 1, Len(s) - 1)) ELSE s

\* String.prototype.trim
Trim(s) == TrimEnd(TrimStart(s))

RECURSIVE DigitsValue(_, _)
\* the value of a string of decimal digits, acc the value of the digits read
DigitsValue(s, acc) ==
    IF s = "" THEN acc
    ELSE DigitsValue(SubSeq(s, 2, Len(s)), 10 * acc + DigitValue(CharAt(s, 1)))

AllDigits(s) == s # "" /\ \A i \in 1..Len(s) : IsDigit(CharAt(s, i))

RECURSIVE SplitFrom(_, _, _)
\* String.prototype.split(sep) for a one-character sep: cur is the part being read
SplitFrom(s, sep, cur) ==
    IF s = "" THEN <<cur>>
    ELSE IF CharAt(s, 1) = sep THEN <<cur>> \o SplitFrom(SubSeq(s, 2, Len(s)), sep, "")
    ELSE SplitFrom(SubSeq(s, 2, Len(s)), sep, cur \o CharAt(s, 1))

Split(s, sep) == SplitFrom(s, sep, "")

\* Infinity, the double that an overflowing operation produces
Infinity == [t |-> "Infinity"]

\* the finite double m * 10^e, for a value beyond the integers of the model
Sci(m, e) == [t |-> "number", m |-> m, e |-> e]

IsSci(v) == v.t = "number" /\ "e" \in DOMAIN v

RECURSIVE NumDigits(_)
\* the number of decimal digits of n > 0
NumDigits(n) == IF n < 10 THEN 1 ELSE 1 + NumDigits(n \div 10)

RECURSIVE LeadingTwo(_)
\* the first two decimal digits of n > 0 (one digit counts as its tenfold)
LeadingTwo(n) == IF n < 10 THEN 10 * n ELSE IF n < 100 THEN n ELSE LeadingTwo(n \div 10)

\* m * 10^e is above the largest double, 1.7976931348623157 * 10^308 (exact for
\* an m of at most two significant digits)
ExceedsMaxDouble(m, e) ==
    \/ e + NumDigits(Abs(m)) - 1 > 308
    \/ e + NumDigits(Abs(m)) - 1 = 308 /\ LeadingTwo(Abs(m)) >= 18

\* the double written <m>e<x>
ScientificValue(m, x) ==
    IF m = 0 THEN Num(0)
    ELSE IF ExceedsMaxDouble(m, x) THEN Infinity
    ELSE IF x <= 5 /\ Abs(m) < 1000 THEN Num(m * 10^x)
    ELSE Sci(m, x)

\* Number(s) for a string s: white space is trimmed, the empty string is 0, an
\* optionally signed run of decimal digits is its value, as is such a run
\* followed by e and a run of digits (Infinity when it is above the largest
\* double), anything else is NaN.
\* (Fractions, negative exponents, hexadecimal and "Infinity" are not among
\* the inputs.)
StringToNumber(s) ==
    LET u == Trim(s)
        body == IF u # "" /\ CharAt(u, 1) \in {"+", "-"} THEN SubSeq(u, 2, Len(u)) ELSE u
        sign == IF u # "" /\ CharAt(u, 1) = "-" THEN -1 ELSE 1
        exp == Split(ToLowerCase(body), "e")
    IN  IF u = "" THEN Num(0)
        ELSE IF AllDigits(body) THEN Num(sign * DigitsValue(body, 0))
        ELSE IF Len(exp) = 2 /\ AllDigits(exp[1]) /\ AllDigits(exp[2])
        THEN ScientificValue(sign * DigitsValue(exp[1], 0), DigitsValue(exp[2], 0))
        ELSE NaN

-----------------------------------------------------------------------------
(* Field taxonomy *)

WORKOUT_IDENTITY_FIELDS ==
    <<"activityId", "activityName", "description", "activityType", "sportTypeId",
      "startTimeLocal", "startTimeGMT", "locationName", "startLatitude",
      "startLongitude", "endLatitude", "endLongitude">>

WORKOUT_TIMING_FIELDS == <<"duration", "movingDuration", "elapsedDuration">>

WORKOUT_DISTANCE_FIELDS == <<"distance", "steps">>

WORKOUT_PACE_FIELDS ==
    <<"averageSpeed", "averageMovingSpeed", "maxSpeed", "avgGradeAdjustedSpeed">>

WORKOUT_HR_FIELDS == <<"averageHR", "maxHR", "minHR">>

WORKOUT_ELEVATION_FIELDS ==
    <<"elevationGain", "elevationLoss", "maxElevation", "minElevation">>

WORKOUT_DYNAMICS_FIELDS ==
    <<"averageRunCadence", "maxRunCadence", "strideLength", "groundContactTime",
      "verticalOscillation", "verticalRatio">>

WORKOUT_POWER_FIELDS ==
    <<"averagePower", "maxPower", "minPower", "normalizedPower", "totalWork">>

WORKOUT_TRAINING_FIELDS ==
    <<"trainingEffect", "anaerobicTrainingEffect", "aerobicTrainingEffectMessage",
      "anaerobicTrainingEffectMessage", "trainingEffectLabel", "activityTrainingLoad">>

WORKOUT_BODY_FIELDS ==
    <<"calories", "avgRespirationRate", "minRespirationRate", "maxRespirationRate",
      "moderateIntensityMinutes", "vigorousIntensityMinutes", "differenceBodyBattery",
      "directWorkoutFeel", "directWorkoutRpe", "waterEstimated",
      "beginPotentialStamina", "endPotentialStamina", "minAvailableStamina">>

WORKOUT_META_FIELDS == <<"lapCount", "hasSplits", "manualActivity", "pr", "favorite">>

WORKOUT_LAP_FIELDS ==
    <<"lapIndex", "distance", "duration", "movingDuration", "startTimeGMT",
      "intensityType", "averageSpeed", "averageMovingSpeed", "maxSpeed",
      "avgGradeAdjustedSpeed", "elevationGain", "elevationLoss", "averageHR",
      "maxHR", "calories", "averageRunCadence", "maxRunCadence",
      "groundContactTime", "strideLength", "verticalOscillation", "verticalRatio",
      "averagePower", "maxPower", "normalizedPower", "totalWork">>

SPLIT_TYPE_PHASE_MAP ==
    Obj(<<Prop("INTERVAL_WARMUP", Str("warmup")),
          Prop("INTERVAL_ACTIVE", Str("active")),
          Prop("INTERVAL_RECOVERY", Str("recovery")),
          Prop("INTERVAL_COOLDOWN", Str("cooldown")),
          Prop("RWD_RUN", Str("run")),
          Prop("RWD_WALK", Str("walk")),
          Prop("RWD_STAND", Str("stand"))>>)

-----------------------------------------------------------------------------
(* Record reshaper *)

\* the object of the fields at the positions kept, in order
pickAt(obj, fields, kept) ==
    Obj([n \in 1..Len(kept) |-> Prop(fields[kept[n]], GetProp(obj, fields[kept[n]]))])

\* the positions of fields, in order
Positions(fields) == [i \in 1..Len(fields) |-> i]

\* position i holds the first occurrence of its name (a later one rewrites the
\* same property with the same value)
FirstOccurrence(fields, i) == \A j \in 1..(i - 1) : fields[j] # fields[i]

\* pickFields without its `key in obj` test: every listed field is copied
pickFieldsNoInTest(obj, fields) ==
    IF fields = <<>> THEN EmptyObj
    ELSE IF ~IsObjectLike(obj) THEN Throw
    ELSE pickAt(obj, fields,
                SelectSeq(Positions(fields), LAMBDA i : FirstOccurrence(fields, i)))

\* {} with result[key] = obj[key] for every key of fields that is `in` obj; the
\* test throws on an obj that is no object
pickFields(obj, fields) ==
    IF fields = <<>> THEN EmptyObj
    ELSE IF ~IsObjectLike(obj) THEN Throw
    ELSE pickAt(obj, fields,
                SelectSeq(Positions(fields),
                          LAMBDA i : In(fields[i], obj) /\ FirstOccurrence(fields, i)))

\* the sub-records flattenActivityDetail destructures out of the raw record
DroppedDTOs ==
    {"summaryDTO", "metadataDTO", "activityTypeDTO", "eventTypeDTO",
     "timeZoneUnitDTO", "accessControlRuleDTO"}

\* metadataDTO field -> flat field, in the order the code copies them
MetadataCopies ==
    <<<<"lapCount", "lapCount">>, <<"hasSplits", "hasSplits">>,
      <<"manualActivity", "manualActivity">>, <<"personalRecord", "pr">>,
      <<"manufacturer", "manufacturer">>, <<"favorite", "favorite">>,
      <<"autoCalcCalories", "autoCalcCalories">>,
      <<"elevationCorrected", "elevationCorrected">>>>

\* every field of metadataDTO under its own name
wholeMetadata(metadataDTO) == metadataDTO

\* the fields of metadataDTO that are not undefined, under their flat names
metadataFields(metadataDTO) ==
    Obj(SelectSeq([i \in 1..Len(MetadataCopies) |->
                      Prop(MetadataCopies[i][2], GetProp(metadataDTO, MetadataCopies[i][1]))],
                  LAMBDA p : p.v # Undefined))

\* flattenActivityDetail with the two spreads in the other order: { ...summaryDTO, ...topLevel }
flattenTopLevelLast(raw) ==
    IF ~Truthy(raw) \/ ~TypeofObject(raw) THEN raw
    ELSE LET summaryDTO == GetProp(raw, "summaryDTO")
             metadataDTO == GetProp(raw, "metadataDTO")
             activityTypeDTO == GetProp(raw, "activityTypeDTO")
             topLevel == RestWithout(raw, DroppedDTOs)
             flat0 == Spread(Spread(EmptyObj, IF Truthy(summaryDTO) THEN summaryDTO ELSE EmptyObj),
                             topLevel)
             flat1 == IF Truthy(activityTypeDTO) /\ ~Truthy(GetProp(flat0, "activityType"))
                      THEN SetProp(flat0, "activityType", activityTypeDTO)
                      ELSE flat0
         IN  IF Truthy(metadataDTO) THEN Spread(flat1, metadataFields(metadataDTO)) ELSE flat1

flattenActivityDetail(raw) ==
    IF ~Truthy(raw) \/ ~TypeofObject(raw) THEN raw
    ELSE LET summaryDTO == GetProp(raw, "summaryDTO")
             metadataDTO == GetProp(raw, "metadataDTO")
             activityTypeDTO == GetProp(raw, "activityTypeDTO")
             topLevel == RestWithout(raw, DroppedDTOs)
             flat0 == Spread(Spread(EmptyObj, topLevel),
                             IF Truthy(summaryDTO) THEN summaryDTO ELSE EmptyObj)
             flat1 == IF Truthy(activityTypeDTO) /\ ~Truthy(GetProp(flat0, "activityType"))
                      THEN SetProp(flat0, "activityType", activityTypeDTO)
                      ELSE flat0
         IN  IF Truthy(metadataDTO) THEN Spread(flat1, metadataFields(metadataDTO)) ELSE flat1

\* SPLIT_TYPE_PHASE_MAP[splitType] || splitType?.toLowerCase() || "unknown"
splitPhase(splitType) ==
    LET looked == IF splitType.t = "string" THEN GetProp(SPLIT_TYPE_PHASE_MAP, splitType.s)
                  ELSE Undefined
        lowered == CASE splitType.t \in {"undefined", "null"} -> Undefined
                     [] splitType.t = "string" -> Str(ToLowerCase(splitType.s))
                     [] OTHER -> Throw
    IN  IF Truthy(looked) THEN looked
        ELSE IF IsThrow(lowered) THEN Throw
        ELSE IF Truthy(lowered) THEN lowered
        ELSE Str("unknown")

\* ({ splitType, ...rest }) => ({ phase, splitType, ...rest })
transformEntry(entry) ==
    IF entry.t \in {"undefined", "null"} THEN Throw
    ELSE LET splitType == GetProp(entry, "splitType")
             rest == RestWithout(entry, {"splitType"})
             phase == splitPhase(splitType)
         IN  IF IsThrow(phase) THEN Throw
             ELSE Spread(Obj(<<Prop("phase", phase), Prop("splitType", splitType)>>), rest)

\* xs.map(f) where f may throw: the first exception ends the map
MapOrThrow(ys) == IF \E i \in 1..Len(ys) : IsThrow(ys[i]) THEN Throw ELSE Arr(ys)

transformSplitSummaries(splitSummaries) ==
    IF splitSummaries.t # "array" THEN Arr(<<>>)
    ELSE MapOrThrow([i \in 1..Len(splitSummaries.a) |-> transformEntry(splitSummaries.a[i])])

\* the object literal of buildWorkoutResponse, its properties in source order
WorkoutResponseGroups ==
    <<<<"identity", WORKOUT_IDENTITY_FIELDS>>, <<"timing", WORKOUT_TIMING_FIELDS>>,
      <<"distance", WORKOUT_DISTANCE_FIELDS>>, <<"pace", WORKOUT_PACE_FIELDS>>,
      <<"heartRate", WORKOUT_HR_FIELDS>>, <<"elevation", WORKOUT_ELEVATION_FIELDS>>,
      <<"runningDynamics", WORKOUT_DYNAMICS_FIELDS>>, <<"power", WORKOUT_POWER_FIELDS>>,
      <<"training", WORKOUT_TRAINING_FIELDS>>, <<"body", WORKOUT_BODY_FIELDS>>,
      <<"workoutStructure", <<>>>>, <<"laps", <<>>>>, <<"meta", WORKOUT_META_FIELDS>>>>

\* buildWorkoutResponse giving null, not {}, for a group without data
responsePropertyNullWhenEmpty(flat, laps, i) ==
    LET name == WorkoutResponseGroups[i][1]
        picked == pickFields(flat, WorkoutResponseGroups[i][2])
    IN  CASE name = "workoutStructure" ->
               IF flat.t \in {"undefined", "null"} THEN Throw
               ELSE transformSplitSummaries(GetProp(flat, "splitSummaries"))
          [] name = "laps" ->
               IF laps.t # "array" THEN Throw
               ELSE MapOrThrow([j \in 1..Len(laps.a) |-> pickFields(laps.a[j], WORKOUT_LAP_FIELDS)])
          [] OTHER -> IF picked = EmptyObj THEN Null ELSE picked

\* buildWorkoutResponse passing the laps on as they are
responsePropertyRawLaps(flat, laps, i) ==
    LET name == WorkoutResponseGroups[i][1]
    IN  CASE name = "workoutStructure" ->
               IF flat.t \in {"undefined", "null"} THEN Throw
               ELSE transformSplitSummaries(GetProp(flat, "splitSummaries"))
          [] name = "laps" -> IF laps.t # "array" THEN Throw ELSE laps
          [] OTHER -> pickFields(flat, WorkoutResponseGroups[i][2])

responseProperty(flat, laps, i) ==
    LET name == WorkoutResponseGroups[i][1]
    IN  CASE name = "workoutStructure" ->
               IF flat.t \in {"undefined", "null"} THEN Throw
               ELSE transformSplitSummaries(GetProp(flat, "splitSummaries"))
          [] name = "laps" ->
               IF laps.t # "array" THEN Throw
               ELSE MapOrThrow([j \in 1..Len(laps.a) |-> pickFields(laps.a[j], WORKOUT_LAP_FIELDS)])
          [] OTHER -> pickFields(flat, WorkoutResponseGroups[i][2])

buildWorkoutResponse(flat, laps) ==
    LET props == [i \in 1..Len(WorkoutResponseGroups) |->
                     Prop(WorkoutResponseGroups[i][1], responseProperty(flat, laps, i))]
    IN  IF \E i \in 1..Len(props) : IsThrow(props[i].v) THEN Throw ELSE Obj(props)

-----------------------------------------------------------------------------
(* The reshaper under test: one call of one function on one input *)

\* output before the call has returned
Pending == [t |-> "pending"]

\* no request: the value of the handler's variables while a pure function is checked
NoRequest == [status |-> 0]
\* no local of the handler is alive
NoFrame == [result |-> Undefined]

\* new Map(): no username has been marked
EmptyMap == <<>>

\* Date.now() when the service starts: any time later than ten minutes past the epoch
StartTime == 1000000000

MaxFields == 3
MaxSplits == 2
MaxLaps == 2

SeqsUpTo(S, n) == UNION {[1..k -> S] : k \in 0..n}

Range(seq) == {seq[i] : i \in 1..Len(seq)}

\* the object with the keys of `keys` that `present` holds, in order; the value of
\* the i-th key is the number base + i
ObjOver(keys, present, base) ==
    Obj(SelectSeq([i \in 1..Len(keys) |-> Prop(keys[i], Num(base + i))],
                  LAMBDA p : p.k \in present))

PickObjKeys == <<"distance", "minPower", "lengthDTOs">>

\* objects whose properties are absent, a number, or present with the value undefined
PickObjects ==
    {Obj(SelectSeq([i \in 1..Len(PickObjKeys) |->
                       Prop(PickObjKeys[i], IF f[i] = "undefined" THEN Undefined ELSE Num(i))],
                   LAMBDA p : \E i \in 1..Len(PickObjKeys) :
                                  PickObjKeys[i] = p.k /\ f[i] # "absent")) :
        f \in [1..Len(PickObjKeys) -> {"absent", "number", "undefined"}]}

PickFieldNames == {"distance", "minPower", "lapIndex", "toString"}

PickInputs ==
    {[f |-> "pickFields", obj |-> o, fields |-> L] :
        o \in PickObjects \cup {Null, Undefined, Num(5)},
        L \in SeqsUpTo(PickFieldNames, MaxFields)}

RawTopKeys == <<"activityId", "distance", "activityType", "lapCount">>
SummaryKeys == <<"distance", "activityType", "summaryDTO", "lapCount">>
MetadataKeys == <<"lapCount", "personalRecord", "isOriginal">>

SummaryDTOs ==
    {Undefined, Null} \cup {ObjOver(SummaryKeys, S, 10) : S \in SUBSET Range(SummaryKeys)}

\* lapCount: undefined is a property that is present with the value undefined
MetadataDTOs ==
    {Undefined} \cup {ObjOver(MetadataKeys, S, 20) : S \in SUBSET Range(MetadataKeys)}
        \cup {Obj(<<Prop("lapCount", Undefined), Prop("personalRecord", Null)>>)}

ActivityTypeDTOs == {Undefined, Obj(<<Prop("typeKey", Str("running"))>>)}

EventTypeDTOs == {Undefined, Obj(<<Prop("typeKey", Str("race"))>>)}

\* obj with property k = v added unless v is undefined (the property is absent)
WithOptional(obj, k, v) == IF v = Undefined THEN obj ELSE SetProp(obj, k, v)

RawActivities ==
    {WithOptional(WithOptional(WithOptional(WithOptional(
        ObjOver(RawTopKeys, T, 0), "summaryDTO", s), "metadataDTO", m),
        "activityTypeDTO", a), "eventTypeDTO", e) :
        T \in SUBSET Range(RawTopKeys), s \in SummaryDTOs, m \in MetadataDTOs,
        a \in ActivityTypeDTOs, e \in EventTypeDTOs}

\* records whose summaryDTO holds an activityType that is null
NullActivityTypes ==
    {WithOptional(Obj(<<Prop("activityType", Num(3)),
                        Prop("summaryDTO", Obj(<<Prop("activityType", Null)>>))>>),
                  "activityTypeDTO", a) : a \in ActivityTypeDTOs}

FlattenInputs ==
    {[f |-> "flattenActivityDetail", raw |-> r] :
        r \in RawActivities \cup NullActivityTypes \cup {Null, Undefined, Num(7)}}

TableSplitTypes ==
    {"INTERVAL_WARMUP", "INTERVAL_ACTIVE", "INTERVAL_RECOVERY", "INTERVAL_COOLDOWN",
     "RWD_RUN", "RWD_WALK", "RWD_STAND"}

\* splitType values: Undefined is an entry without the field
SplitTypeValues ==
    {Str(s) : s \in TableSplitTypes \cup {"FUTURE_X", "Rwd_Run", "", "constructor"}}
        \cup {Undefined, Null, Num(5)}

\* entries with nothing but a splitType, entries with more fields, and null
SplitEntries ==
    {WithOptional(EmptyObj, "splitType", st) : st \in SplitTypeValues}
        \cup {Spread(WithOptional(EmptyObj, "splitType", st), extra) :
                 st \in {Str("RWD_RUN"), Undefined},
                 extra \in {Obj(<<Prop("noOfSplits", Num(4))>>),
                            Obj(<<Prop("phase", Str("custom"))>>)}}
        \cup {Null}

TransformInputs ==
    {[f |-> "transformSplitSummaries", splitSummaries |-> x] :
        x \in {Arr(a) : a \in SeqsUpTo(SplitEntries, MaxSplits)} \cup {Null, Undefined}}

FlatKeys == <<"activityId", "duration", "minPower", "bmrCalories">>
LapKeys == <<"lapIndex", "distance", "lengthDTOs">>

FlatSplitSummaries ==
    {Undefined,
     Arr(<<Obj(<<Prop("splitType", Str("RWD_RUN")), Prop("noOfSplits", Num(2))>>)>>)}

FlatRecords ==
    {WithOptional(ObjOver(FlatKeys, S, 30), "splitSummaries", ss) :
        S \in SUBSET Range(FlatKeys), ss \in FlatSplitSummaries}

\* a lap with the fields the response keeps and the fields it drops
NoisyLap ==
    Obj(<<Prop("lapIndex", Num(1)), Prop("distance", Num(1000)), Prop("averagePower", Num(300)),
          Prop("lengthDTOs", Arr(<<>>)), Prop("connectIQMeasurement", Arr(<<>>)),
          Prop("messageIndex", Num(0)), Prop("bmrCalories", Num(2)), Prop("minPower", Num(100))>>)

LapRecords == {ObjOver(LapKeys, S, 40) : S \in SUBSET Range(LapKeys)} \cup {NoisyLap}

ResponseInputs ==
    {[f |-> "buildWorkoutResponse", flat |-> fl, laps |-> Arr(ls)] :
        fl \in FlatRecords \cup {Null}, ls \in SeqsUpTo(LapRecords, MaxLaps)}

InitReshape ==
    /\ fn = "none"
    /\ input \in PickInputs \cup FlattenInputs \cup TransformInputs \cup ResponseInputs
    /\ output = Pending
    /\ pc = "idle"
    /\ req = NoRequest
    /\ calls = <<>>
    /\ resp = NoRequest
    /\ frame = NoFrame
    /\ lastPasswordLoginAttemptByUsername = EmptyMap
    /\ now = StartTime

CallPickFields ==
    /\ fn = "none"
    /\ input.f = "pickFields"
    /\ fn' = "pickFields"
    /\ output' = pickFields(input.obj, input.fields)
    /\ UNCHANGED <<input, httpVars, svcVars>>

CallFlattenActivityDetail ==
    /\ fn = "none"
    /\ input.f = "flattenActivityDetail"
    /\ fn' = "flattenActivityDetail"
    /\ output' = flattenActivityDetail(input.raw)
    /\ UNCHANGED <<input, httpVars, svcVars>>

CallTransformSplitSummaries ==
    /\ fn = "none"
    /\ input.f = "transformSplitSummaries"
    /\ fn' = "transformSplitSummaries"
    /\ output' = transformSplitSummaries(input.splitSummaries)
    /\ UNCHANGED <<input, httpVars, svcVars>>

CallBuildWorkoutResponse ==
    /\ fn = "none"
    /\ input.f = "buildWorkoutResponse"
    /\ fn' = "buildWorkoutResponse"
    /\ output' = buildWorkoutResponse(input.flat, input.laps)
    /\ UNCHANGED <<input, httpVars, svcVars>>

NextReshape ==
    \/ CallPickFields
    \/ CallFlattenActivityDetail
    \/ CallTransformSplitSummaries
    \/ CallBuildWorkoutResponse

SpecReshape == InitReshape /\ [][NextReshape]_vars

-----------------------------------------------------------------------------
(* Claims about the reshaper, checked under SpecReshape *)

ResponseKeyOrder ==
    <<"identity", "timing", "distance", "pace", "heartRate", "elevation",
      "runningDynamics", "power", "training", "body", "workoutStructure", "laps", "meta">>

GroupFieldList(name) ==
    CASE name = "identity" -> WORKOUT_IDENTITY_FIELDS
      [] name = "timing" -> WORKOUT_TIMING_FIELDS
      [] name = "distance" -> WORKOUT_DISTANCE_FIELDS
      [] name = "pace" -> WORKOUT_PACE_FIELDS
      [] name = "heartRate" -> WORKOUT_HR_FIELDS
      [] name = "elevation" -> WORKOUT_ELEVATION_FIELDS
      [] name = "runningDynamics" -> WORKOUT_DYNAMICS_FIELDS
      [] name = "power" -> WORKOUT_POWER_FIELDS
      [] name = "training" -> WORKOUT_TRAINING_FIELDS
      [] name = "body" -> WORKOUT_BODY_FIELDS
      [] name = "meta" -> WORKOUT_META_FIELDS

ObjectGroups == Range(ResponseKeyOrder) \ {"workoutStructure", "laps"}

KeySeq(obj) == [i \in 1..Len(obj.o) |-> obj.o[i].k]

\* C3: for every flat record (an object, however few of its fields are present)
\* buildWorkoutResponse returns an object with exactly the 13 keys identity .. meta in
\* that order; each of the 11 object groups is an object, and is {} when none of its
\* listed fields is present in flat; workoutStructure is [] when flat has no
\* splitSummaries.
C3_GroupCompleteness ==
    (fn = "buildWorkoutResponse" /\ input.flat.t = "object") =>
        /\ output.t = "object"
        /\ KeySeq(output) = ResponseKeyOrder
        /\ \A g \in ObjectGroups :
              /\ GetProp(output, g).t = "object"
              /\ (\A k \in Range(GroupFieldList(g)) : ~HasOwn(input.flat, k))
                    => GetProp(output, g) = EmptyObj
        /\ ~HasOwn(input.flat, "splitSummaries")
              => GetProp(output, "workoutStructure") = Arr(<<>>)

\* a sparse flat record (an identity field, no power field, no splitSummaries) has
\* been reshaped: power is {} beside a non-empty identity
C3_Witness ==
    /\ fn = "buildWorkoutResponse"
    /\ input.flat.t = "object"
    /\ HasOwn(input.flat, "activityId")
    /\ ~HasOwn(input.flat, "minPower")
    /\ ~HasOwn(input.flat, "splitSummaries")
    /\ output.t = "object"
    /\ GetProp(output, "power") = EmptyObj
    /\ GetProp(output, "identity") # EmptyObj

C5_NoNestedDTOKey ==
    (fn = "flattenActivityDetail" /\ input.raw.t = "object") =>
        /\ output.t = "object"
        /\ OwnKeys(output) \cap
              {"summaryDTO", "metadataDTO", "activityTypeDTO", "eventTypeDTO",
               "timeZoneUnitDTO", "accessControlRuleDTO"} = {}

\* the phase the specification gives a splitType (Undefined: the field is absent)
ClaimedPhase(splitType) ==
    IF splitType = Undefined THEN Str("unknown")
    ELSE CASE splitType.s = "INTERVAL_WARMUP" -> Str("warmup")
           [] splitType.s = "INTERVAL_ACTIVE" -> Str("active")
           [] splitType.s = "INTERVAL_RECOVERY" -> Str("recovery")
           [] splitType.s = "INTERVAL_COOLDOWN" -> Str("cooldown")
           [] splitType.s = "RWD_RUN" -> Str("run")
           [] splitType.s = "RWD_WALK" -> Str("walk")
           [] splitType.s = "RWD_STAND" -> Str("stand")
           [] OTHER -> Str(ToLowerCase(splitType.s))

\* an entry as the specification describes it: an object whose splitType is a string
\* or absent
IsSplitEntry(e) ==
    /\ e.t = "object"
    /\ HasOwn(e, "splitType") => GetProp(e, "splitType").t = "string"

\* C6: transformSplitSummaries gives [] for a null, undefined or empty list, and for
\* every entry of a list a phase that is the table value of its splitType, the
\* lower-cased splitType for any other string, and "unknown" when splitType is absent.
C6_PhaseMappingTotal ==
    fn = "transformSplitSummaries" =>
        IF input.splitSummaries.t # "array" \/ input.splitSummaries = Arr(<<>>)
        THEN output = Arr(<<>>)
        ELSE (\A i \in 1..Len(input.splitSummaries.a) : IsSplitEntry(input.splitSummaries.a[i]))
                => /\ output.t = "array"
                   /\ Len(output.a) = Len(input.splitSummaries.a)
                   /\ \A i \in 1..Len(output.a) :
                         GetProp(output.a[i], "phase") =
                            ClaimedPhase(GetProp(input.splitSummaries.a[i], "splitType"))

-----------------------------------------------------------------------------
(* Workout-authoring translator: compilation *)

SportType(id, key) == Obj(<<Prop("sportTypeId", Num(id)), Prop("sportTypeKey", Str(key))>>)

SPORT_TYPE_MAP ==
    Obj(<<Prop("running", SportType(1, "running")),
          Prop("cycling", SportType(2, "cycling")),
          Prop("swimming", SportType(4, "swimming")),
          Prop("strength", SportType(5, "strength_training")),
          Prop("cardio", SportType(6, "cardio_training"))>>)

StepType(id, key, order) ==
    Obj(<<Prop("stepTypeId", Num(id)), Prop("stepTypeKey", Str(key)),
          Prop("displayOrder", Num(order))>>)

STEP_TYPE_MAP ==
    Obj(<<Prop("warmup", StepType(1, "warmup", 1)),
          Prop("interval", StepType(3, "interval", 3)),
          Prop("recovery", StepType(4, "recovery", 4)),
          Prop("rest", StepType(5, "rest", 5)),
          Prop("cooldown", StepType(2, "cooldown", 2)),
          Prop("other", StepType(7, "other", 7))>>)

\* v < 0 for a finite number v
IsNegative(v) == IF IsSci(v) THEN v.m < 0 ELSE NumLess(v, Num(0))

\* mins * 60 in double arithmetic: Infinity when the product overflows
Times60(mins) ==
    IF ~IsSci(mins) THEN Num(mins.n * 60)
    ELSE IF ExceedsMaxDouble(mins.m * 60, mins.e) THEN Infinity
    ELSE Sci(mins.m * 60, mins.e)

\* a + secs in double arithmetic, for a finite secs: Infinity stays Infinity
PlusSeconds(a, secs) == IF a = Infinity THEN Infinity ELSE Num(a.n + secs.n)

\* 1000 / totalSec, or null when a part is no finite number, is negative, or
\* the sum is 0; Infinity <= 0 is false and 1000 / Infinity is 0
paceOfParts(mins, secs) ==
    IF ~NumberIsFinite(mins) \/ ~NumberIsFinite(secs)
       \/ IsNegative(mins) \/ IsNegative(secs)
    THEN Null
    ELSE LET totalSec == PlusSeconds(Times60(mins), secs)
         IN  IF totalSec = Infinity THEN Num(0)
             ELSE IF totalSec.n <= 0 THEN Null
             ELSE Rat(1000, totalSec.n)

\* parts is paceStr.split(":")
paceOfSplit(parts) ==
    IF Len(parts) # 2 THEN Null
    ELSE paceOfParts(StringToNumber(parts[1]), StringToNumber(parts[2]))

\* metres per second, null, or Throw (paceStr has no split method)
parsePaceToMps(paceStr) ==
    IF paceStr.t # "string" THEN Throw ELSE paceOfSplit(Split(paceStr.s, ":"))

buildGarminSportType(sport) == OrElse(Lookup(SPORT_TYPE_MAP, sport), Null)

EndCondition(id, key, order) ==
    Obj(<<Prop("conditionTypeId", Num(id)), Prop("conditionTypeKey", Str(key)),
          Prop("displayable", Bool(TRUE)), Prop("displayOrder", Num(order))>>)

buildGarminDuration(duration) ==
    IF ~Truthy(duration) \/ ~Truthy(GetProp(duration, "type")) THEN Null
    ELSE LET type == GetProp(duration, "type")
         IN  CASE type = Str("time") ->
                    Obj(<<Prop("endCondition", EndCondition(2, "time", 1)),
                          Prop("endConditionValue", GetProp(duration, "seconds")),
                          Prop("endConditionCompare", Null),
                          Prop("endConditionZone", Null),
                          Prop("preferredEndConditionUnit", Null)>>)
               [] type = Str("distance") ->
                    Obj(<<Prop("endCondition", EndCondition(3, "distance", 3)),
                          Prop("endConditionValue", GetProp(duration, "meters")),
                          Prop("endConditionCompare", Null),
                          Prop("preferredEndConditionUnit",
                               Obj(<<Prop("unitKey", Str("kilometer"))>>))>>)
               [] type = Str("calories") ->
                    Obj(<<Prop("endCondition", EndCondition(4, "calories", 4)),
                          Prop("endConditionValue", GetProp(duration, "calories")),
                          Prop("endConditionCompare", Null),
                          Prop("preferredEndConditionUnit", Null)>>)
               [] type = Str("lapButton") ->
                    Obj(<<Prop("endCondition", EndCondition(1, "lap.button", 1)),
                          Prop("endConditionValue", Null),
                          Prop("endConditionCompare", Null),
                          Prop("preferredEndConditionUnit", Null)>>)
               [] type = Str("heartRate") ->
                    Obj(<<Prop("endCondition", EndCondition(6, "heart.rate", 6)),
                          Prop("endConditionValue", GetProp(duration, "bpm")),
                          Prop("endConditionCompare",
                               OrElse(GetProp(duration, "comparison"), Str("gt"))),
                          Prop("preferredEndConditionUnit", Null)>>)
               [] OTHER -> Null

TargetType(id, key, order) ==
    Obj(<<Prop("workoutTargetTypeId", Num(id)), Prop("workoutTargetTypeKey", Str(key)),
          Prop("displayOrder", Num(order))>>)

NoTarget == Obj(<<Prop("targetType", TargetType(1, "no.target", 1))>>)

\* the pace case of buildGarminTarget, given the two bounds converted
paceZone(minMps, maxMps) ==
    IF IsThrow(minMps) \/ IsThrow(maxMps) THEN Throw
    ELSE IF ~Truthy(minMps) \/ ~Truthy(maxMps) THEN Null
    ELSE Obj(<<Prop("targetType", TargetType(6, "pace.zone", 6)),
               Prop("targetValueOne", minMps),
               Prop("targetValueTwo", maxMps),
               Prop("targetValueUnit", Null)>>)

buildGarminTarget(target) ==
    IF ~Truthy(target) \/ ~Truthy(GetProp(target, "type")) THEN NoTarget
    ELSE LET type == GetProp(target, "type")
         IN  CASE type = Str("none") -> NoTarget
               [] type = Str("pace") ->
                    paceZone(parsePaceToMps(GetProp(target, "minPerKm")),
                             parsePaceToMps(GetProp(target, "maxPerKm")))
               [] type = Str("heartRateZone") ->
                    Obj(<<Prop("targetType", TargetType(4, "heart.rate.zone", 4)),
                          Prop("zoneNumber", GetProp(target, "zone"))>>)
               [] type = Str("heartRate") ->
                    Obj(<<Prop("targetType", TargetType(4, "heart.rate.zone", 4)),
                          Prop("targetValueOne", GetProp(target, "min")),
                          Prop("targetValueTwo", GetProp(target, "max")),
                          Prop("targetValueUnit", Null)>>)
               [] type = Str("powerZone") ->
                    Obj(<<Prop("targetType", TargetType(2, "power.zone", 2)),
                          Prop("zoneNumber", GetProp(target, "zone"))>>)
               [] type = Str("power") ->
                    Obj(<<Prop("targetType", TargetType(2, "power.zone", 2)),
                          Prop("targetValueOne", GetProp(target, "min")),
                          Prop("targetValueTwo", GetProp(target, "max"))>>)
               [] type = Str("cadence") ->
                    Obj(<<Prop("targetType", TargetType(3, "cadence", 3)),
                          Prop("targetValueOne", GetProp(target, "min")),
                          Prop("targetValueTwo", GetProp(target, "max")),
                          Prop("targetValueUnit", Null)>>)
               [] OTHER -> Null

\* the object literal buildGarminStep returns
ExecutableStep(step, stepId, stepType, duration, target) ==
    Spread(Spread(Spread(
        Obj(<<Prop("type", Str("ExecutableStepDTO")),
              Prop("stepId", Num(stepId)),
              Prop("stepOrder", Num(stepId)),
              Prop("childStepId", Null),
              Prop("description", OrElse(GetProp(step, "notes"), Null)),
              Prop("stepType", stepType)>>),
        duration), target),
        Obj(<<Prop("targetValueOne", Coalesce(GetProp(target, "targetValueOne"), Null)),
              Prop("targetValueTwo", Coalesce(GetProp(target, "targetValueTwo"), Null)),
              Prop("targetValueUnit", Coalesce(GetProp(target, "targetValueUnit"), Null)),
              Prop("zoneNumber", Coalesce(GetProp(target, "zoneNumber"), Null)),
              Prop("secondaryTargetType", Null),
              Prop("secondaryTargetValueOne", Null),
              Prop("secondaryTargetValueTwo", Null),
              Prop("secondaryTargetValueUnit", Null),
              Prop("secondaryZoneNumber", Null),
              Prop("strokeType", EmptyObj),
              Prop("equipmentType",
                   Obj(<<Prop("displayOrder", Null), Prop("equipmentTypeId", Null),
                         Prop("equipmentTypeKey", Null)>>)),
              Prop("exerciseName", Null),
              Prop("category", Null),
              Prop("workoutProvider", Null),
              Prop("providerExerciseSourceId", Null),
              Prop("weightValue", Null),
              Prop("weightUnit", Null),
              Prop("stepAudioNote", Null)>>))

\* buildGarminStep once the step type, the duration and the target are built
stepOfParts(step, stepId, stepType, duration, target) ==
    IF ~Truthy(stepType) THEN Null
    ELSE IF ~Truthy(duration) THEN Null
    ELSE IF IsThrow(target) THEN Throw
    ELSE IF ~Truthy(target) THEN Null
    ELSE ExecutableStep(step, stepId, stepType, duration, target)

\* null, Throw, or the ExecutableStepDTO of step
buildGarminStep(step, stepId) ==
    IF step.t \in {"undefined", "null"} THEN Throw
    ELSE stepOfParts(step, stepId, Lookup(STEP_TYPE_MAP, GetProp(step, "type")),
                     buildGarminDuration(GetProp(step, "duration")),
                     buildGarminTarget(GetProp(step, "target")))

RECURSIVE buildChildSteps(_, _, _, _)

\* the body of the loop of buildGarminRepeatGroup after its i-th child is built
pushChild(steps, i, childId, childSteps, built) ==
    IF IsThrow(built) THEN Throw
    ELSE IF ~Truthy(built) THEN Null
    ELSE buildChildSteps(steps, i + 1, childId + 1, Append(childSteps, built))

\* the loop of buildGarminRepeatGroup from its i-th child on: null or Throw when a
\* child fails, else the children built and the next free id
buildChildSteps(steps, i, childId, childSteps) ==
    IF i > Len(steps) THEN [t |-> "built", childSteps |-> childSteps, childId |-> childId]
    ELSE pushChild(steps, i, childId, childSteps, buildGarminStep(steps[i], childId))

\* what buildGarminRepeatGroup returns once its loop has ended
repeatGroupOf(step, stepId, loop) ==
    IF loop.t # "built" THEN loop
    ELSE Obj(<<Prop("type", Str("RepeatGroupDTO")),
               Prop("stepId", Num(stepId)),
               Prop("stepOrder", Num(stepId)),
               Prop("childStepId", Null),
               Prop("stepType", StepType(6, "repeat", 6)),
               Prop("numberOfIterations", GetProp(step, "iterations")),
               Prop("workoutSteps", Arr(loop.childSteps)),
               Prop("_nextId", Num(loop.childId))>>)

\* a repeat group whose children are numbered from the id of the group itself
repeatGroupSharingId(step, stepId) ==
    IF GetProp(step, "steps").t # "array" THEN Throw
    ELSE repeatGroupOf(step, stepId,
                       buildChildSteps(GetProp(step, "steps").a, 1, stepId, <<>>))

\* null, Throw (step.steps is not iterable), or the RepeatGroupDTO of step
buildGarminRepeatGroup(step, stepId) ==
    IF GetProp(step, "steps").t # "array" THEN Throw
    ELSE repeatGroupOf(step, stepId,
                       buildChildSteps(GetProp(step, "steps").a, 1, stepId + 1, <<>>))

RECURSIVE buildWorkoutSteps(_, _, _, _)

\* the repeat branch of the loop of buildGarminWorkout after the group is built
pushGroup(steps, i, acc, group) ==
    IF IsThrow(group) THEN Throw
    ELSE IF ~Truthy(group) THEN Null
    ELSE buildWorkoutSteps(steps, i + 1, GetProp(group, "_nextId").n,
                           Append(acc, RestWithout(group, {"_nextId"})))

\* the other branch of the loop of buildGarminWorkout after the step is built
pushStep(steps, i, stepId, acc, built) ==
    IF IsThrow(built) THEN Throw
    ELSE IF ~Truthy(built) THEN Null
    ELSE buildWorkoutSteps(steps, i + 1, stepId + 1, Append(acc, built))

\* the loop of buildGarminWorkout from its i-th step on: null or Throw when a step
\* fails, else the array of the nodes built
buildWorkoutSteps(steps, i, stepId, acc) ==
    IF i > Len(steps) THEN Arr(acc)
    ELSE IF steps[i].t \in {"undefined", "null"} THEN Throw
    ELSE IF GetProp(steps[i], "type") = Str("repeat")
    THEN pushGroup(steps, i, acc, buildGarminRepeatGroup(steps[i], stepId))
    ELSE pushStep(steps, i, stepId, acc, buildGarminStep(steps[i], stepId))

\* what buildGarminWorkout returns once its loop has ended
workoutOf(workout, sportType, steps) ==
    IF steps.t # "array" THEN steps
    ELSE Obj(<<Prop("sportType", sportType),
               Prop("subSportType", Null),
               Prop("workoutName", GetProp(workout, "name")),
               Prop("description", OrElse(GetProp(workout, "description"), Null)),
               Prop("workoutSegments",
                    Arr(<<Obj(<<Prop("segmentOrder", Num(1)),
                                Prop("sportType", sportType),
                                Prop("workoutSteps", steps)>>)>>)),
               Prop("estimatedDurationInSecs", Num(0)),
               Prop("estimatedDistanceInMeters", Num(0)),
               Prop("estimateType", Null),
               Prop("avgTrainingSpeed", Null),
               Prop("estimatedDistanceUnit", Obj(<<Prop("unitKey", Null)>>)),
               Prop("isWheelchair", Bool(FALSE))>>)

\* null, Throw (workout or workout.steps cannot be read), or the Garmin workout
buildGarminWorkout(workout) ==
    IF workout.t \in {"undefined", "null"} THEN Throw
    ELSE IF GetProp(workout, "steps").t # "array" THEN Throw
    ELSE workoutOf(workout, buildGarminSportType(GetProp(workout, "sport")),
                   buildWorkoutSteps(GetProp(workout, "steps").a, 1, 1, <<>>))

-----------------------------------------------------------------------------
(* Workout-authoring translator: validation *)

VALID_SPORTS == {Str(k) : k \in OwnKeys(SPORT_TYPE_MAP)}
VALID_STEP_TYPES == {Str(k) : k \in OwnKeys(STEP_TYPE_MAP)} \cup {Str("repeat")}
VALID_DURATION_TYPES ==
    {Str("time"), Str("distance"), Str("calories"), Str("lapButton"), Str("heartRate")}
\* the target types with one that buildGarminTarget has no case for
validTargetTypesWithSpeed ==
    {Str("none"), Str("pace"), Str("heartRateZone"), Str("heartRate"), Str("powerZone"),
     Str("power"), Str("cadence"), Str("speed")}

VALID_TARGET_TYPES ==
    {Str("none"), Str("pace"), Str("heartRateZone"), Str("heartRate"), Str("powerZone"),
     Str("power"), Str("cadence")}

\* `${v}` in a template string
TemplateString(v) ==
    CASE v.t = "string" -> v.s
      [] v.t = "undefined" -> "undefined"
      [] v.t = "null" -> "null"
      [] v.t = "NaN" -> "NaN"
      [] v.t = "number" /\ v.d = 1 -> ToString(v.n)
      [] OTHER -> "[object Object]"

\* !Number.isFinite(v) || v <= 0
NotPositive(v) == ~NumberIsFinite(v) \/ NumLeq(v, Num(0))

\* the duration checks of validateWorkoutStep: an error message or null
validateDuration(duration) ==
    LET type == GetProp(duration, "type")
        comparison == GetProp(duration, "comparison")
    IN  IF ~Truthy(duration) \/ type \notin VALID_DURATION_TYPES
        THEN Str("Invalid duration type. Must be one of: time, distance, calories, lapButton, heartRate")
        ELSE IF type = Str("time") /\ NotPositive(GetProp(duration, "seconds"))
        THEN Str("Time duration requires a positive seconds value")
        ELSE IF type = Str("distance") /\ NotPositive(GetProp(duration, "meters"))
        THEN Str("Distance duration requires a positive meters value")
        ELSE IF type = Str("calories") /\ NotPositive(GetProp(duration, "calories"))
        THEN Str("Calories duration requires a positive calories value")
        ELSE IF type = Str("heartRate") /\ NotPositive(GetProp(duration, "bpm"))
        THEN Str("Heart rate duration requires a positive bpm value")
        ELSE IF type = Str("heartRate") /\ Truthy(comparison)
                /\ comparison # Str("gt") /\ comparison # Str("lt")
        THEN Str("Heart rate duration comparison must be \"gt\" or \"lt\"")
        ELSE Null

\* !Number.isFinite(target.min) || !Number.isFinite(target.max)
MinMaxMissing(target) ==
    ~NumberIsFinite(GetProp(target, "min")) \/ ~NumberIsFinite(GetProp(target, "max"))

\* the target checks of validateWorkoutStep: an error message, null, or Throw
validateTarget(target) ==
    LET type == GetProp(target, "type")
        zone == GetProp(target, "zone")
        minMps == parsePaceToMps(OrElse(GetProp(target, "minPerKm"), Str("")))
        maxMps == parsePaceToMps(OrElse(GetProp(target, "maxPerKm"), Str("")))
    IN  IF ~Truthy(target) \/ type \notin VALID_TARGET_TYPES
        THEN Str("Invalid target type. Must be one of: none, pace, heartRateZone, heartRate, powerZone, power, cadence")
        ELSE IF type = Str("pace") /\ IsThrow(minMps) THEN Throw
        ELSE IF type = Str("pace") /\ ~Truthy(minMps)
        THEN Str("Pace target requires valid minPerKm (e.g. \"5:30\")")
        ELSE IF type = Str("pace") /\ IsThrow(maxMps) THEN Throw
        ELSE IF type = Str("pace") /\ ~Truthy(maxMps)
        THEN Str("Pace target requires valid maxPerKm (e.g. \"5:00\")")
        ELSE IF type = Str("heartRateZone")
                /\ (~NumberIsFinite(zone) \/ NumLess(zone, Num(1)) \/ NumLess(Num(5), zone))
        THEN Str("Heart rate zone must be 1-5")
        ELSE IF type = Str("heartRate") /\ MinMaxMissing(target)
        THEN Str("Heart rate target requires min and max BPM values")
        ELSE IF type = Str("powerZone") /\ (~NumberIsFinite(zone) \/ NumLess(zone, Num(1)))
        THEN Str("Power zone must be a positive integer")
        ELSE IF type = Str("power") /\ MinMaxMissing(target)
        THEN Str("Power target requires min and max watt values")
        ELSE IF type = Str("cadence") /\ MinMaxMissing(target)
        THEN Str("Cadence target requires min and max values")
        ELSE Null

RECURSIVE validateWorkoutStep(_, _)

RECURSIVE validateChildren(_, _)
\* the loop over the children of a repeat, from the i-th on: the first error, or null
validateChildren(steps, i) ==
    IF i > Len(steps) THEN Null
    ELSE LET err == validateWorkoutStep(steps[i], FALSE)
         IN  IF IsThrow(err) \/ Truthy(err) THEN err ELSE validateChildren(steps, i + 1)

\* an error message, null for a valid step, or Throw
validateWorkoutStep(step, allowRepeat) ==
    LET type == GetProp(step, "type")
        iterations == GetProp(step, "iterations")
        steps == GetProp(step, "steps")
        durationError == validateDuration(GetProp(step, "duration"))
    IN  IF ~Truthy(step) \/ ~TypeofObject(step) THEN Str("Each step must be an object")
        ELSE IF type \notin VALID_STEP_TYPES
        THEN Str("Invalid step type \"" \o TemplateString(type)
                 \o "\". Must be one of: warmup, interval, recovery, rest, cooldown, other, repeat")
        ELSE IF type = Str("repeat")
        THEN IF ~allowRepeat THEN Str("Nested repeats are not allowed")
             ELSE IF ~NumberIsFinite(iterations) \/ NumLess(iterations, Num(1))
             THEN Str("Repeat iterations must be a positive integer")
             ELSE IF steps.t # "array" \/ Len(steps.a) = 0
             THEN Str("Repeat must contain at least one step")
             ELSE validateChildren(steps.a, 1)
        ELSE IF durationError # Null THEN durationError
        ELSE validateTarget(GetProp(step, "target"))

RECURSIVE validateStepsExaminingAll(_, _)
\* the loop, were every step examined before the first error is reported
validateStepsExaminingAll(steps, i) ==
    IF i > Len(steps) THEN Obj(<<Prop("ok", Bool(TRUE))>>)
    ELSE LET err == validateWorkoutStep(steps[i], TRUE)
             rest == validateStepsExaminingAll(steps, i + 1)
         IN  IF IsThrow(err) \/ IsThrow(rest) THEN Throw
             ELSE IF Truthy(err)
             THEN Obj(<<Prop("ok", Bool(FALSE)),
                        Prop("error", Str("Step " \o ToString(i) \o ": " \o err.s))>>)
             ELSE rest

RECURSIVE validateSteps(_, _)
\* the loop of validateWorkoutPayload from the i-th step on
validateSteps(steps, i) ==
    IF i > Len(steps) THEN Obj(<<Prop("ok", Bool(TRUE))>>)
    ELSE LET err == validateWorkoutStep(steps[i], TRUE)
         IN  IF IsThrow(err) THEN Throw
             ELSE IF Truthy(err)
             THEN Obj(<<Prop("ok", Bool(FALSE)),
                        Prop("error", Str("Step " \o ToString(i) \o ": " \o err.s))>>)
             ELSE validateSteps(steps, i + 1)

Failure(message) == Obj(<<Prop("ok", Bool(FALSE)), Prop("error", Str(message))>>)

\* { ok: true }, { ok: false, error }, or Throw
validateWorkoutPayload(workout) ==
    LET name == GetProp(workout, "name")
        sport == GetProp(workout, "sport")
        steps == GetProp(workout, "steps")
    IN  IF ~Truthy(workout) \/ ~TypeofObject(workout) THEN Failure("Missing workout object")
        ELSE IF ~Truthy(name) \/ name.t # "string" \/ Trim(name.s) = ""
        THEN Failure("Workout name is required")
        ELSE IF sport \notin VALID_SPORTS
        THEN Failure("Invalid sport \"" \o TemplateString(sport)
                     \o "\". Must be one of: running, cycling, swimming, strength, cardio")
        ELSE IF steps.t # "array" \/ Len(steps.a) = 0
        THEN Failure("Workout must contain at least one step")
        ELSE validateSteps(steps.a, 1)

-----------------------------------------------------------------------------
(* The translator under test: one call of one function on one input *)

MaxNodes == 4
MaxPaceLen == 4

Duration(type, field, n) == Obj(<<Prop("type", Str(type)), Prop(field, Num(n))>>)

TargetNone == Obj(<<Prop("type", Str("none"))>>)

PaceTarget(minPerKm, maxPerKm) ==
    WithOptional(WithOptional(Obj(<<Prop("type", Str("pace"))>>),
                              "minPerKm", minPerKm), "maxPerKm", maxPerKm)

Step(type, duration, target) ==
    WithOptional(WithOptional(WithOptional(EmptyObj, "type", type),
                              "duration", duration), "target", target)

Repeat(iterations, children) ==
    Obj(<<Prop("type", Str("repeat")), Prop("iterations", iterations),
          Prop("steps", Arr(children))>>)

Workout(name, sport, steps) ==
    Obj(<<Prop("name", name), Prop("sport", sport), Prop("steps", steps)>>)

WarmupStep == Step(Str("warmup"), Duration("time", "seconds", 300), TargetNone)

CooldownStep ==
    SetProp(Step(Str("cooldown"), Duration("distance", "meters", 1000),
                 Obj(<<Prop("type", Str("heartRateZone")), Prop("zone", Num(2))>>)),
            "notes", Str("easy"))

\* a step whose type is not in the step-type table
SprintStep == Step(Str("sprint"), Duration("time", "seconds", 60), TargetNone)

\* a step whose pace bound is a number: parsePaceToMps has no split to call on it
NumericPaceStep ==
    Step(Str("interval"), Duration("time", "seconds", 60), PaceTarget(Num(530), Str("5:00")))

\* a repeat that is valid by itself: as a child of a repeat it is a nested repeat
InnerRepeat == Repeat(Num(2), <<WarmupStep>>)

LeafSteps == {WarmupStep, CooldownStep, SprintStep, NumericPaceStep}

ChildSteps == LeafSteps \cup {InnerRepeat}

\* the top-level steps of c nodes: a leaf or an empty repeat (1), a repeat of c - 1 children
StepsOfSize(c) ==
    IF c = 1 THEN LeafSteps \cup {Repeat(Num(3), <<>>)}
    ELSE {Repeat(Num(3), cs) : cs \in [1..(c - 1) -> ChildSteps]}

RECURSIVE StepLists(_)
\* the step lists of exactly n nodes
StepLists(n) ==
    IF n = 0 THEN {<<>>}
    ELSE UNION {{<<first>> \o rest : first \in StepsOfSize(c), rest \in StepLists(n - c)} :
                   c \in 1..n}

\* workouts of up to MaxNodes nodes over a few steps: the shape of the step tree varies
TreeWorkouts ==
    {Workout(Str("Intervals"), Str("running"), Arr(steps)) :
        steps \in UNION {StepLists(n) : n \in 0..MaxNodes}}

\* warmup, a repeat of two children, cooldown
IntervalsWorkout ==
    Workout(Str("Intervals"), Str("running"),
            Arr(<<WarmupStep,
                  Repeat(Num(4),
                         <<Step(Str("interval"), Duration("distance", "meters", 800),
                                PaceTarget(Str("5:30"), Str("5:00"))),
                           Step(Str("recovery"), Duration("time", "seconds", 90), TargetNone)>>),
                  CooldownStep>>))

\* workouts of one valid step: the name and the sport vary
HeaderWorkouts ==
    {Workout(name, sport, Arr(<<WarmupStep>>)) :
        name \in {Str("Intervals"), Str(" "), Str(""), Num(7), Undefined},
        sport \in {Str("running"), Str("cycling"), Str("golf"), Str("toString"), Undefined}}

StepTypeValues == {Str("warmup"), Str("interval"), Str("rest"), Str("sprint"), Undefined}

DurationValues ==
    {Duration("time", "seconds", 300), Duration("time", "seconds", 0),
     Duration("distance", "meters", 800), Duration("calories", "calories", 200),
     Obj(<<Prop("type", Str("lapButton"))>>),
     Duration("heartRate", "bpm", 150),
     SetProp(Duration("heartRate", "bpm", 150), "comparison", Str("lt")),
     SetProp(Duration("heartRate", "bpm", 150), "comparison", Str("eq")),
     Obj(<<Prop("type", Str("time"))>>),
     Obj(<<Prop("type", Str("hours"))>>),
     Undefined}

MinMaxTarget(type, min, max) ==
    WithOptional(WithOptional(Obj(<<Prop("type", Str(type))>>), "min", min), "max", max)

ZoneTarget(type, zone) == WithOptional(Obj(<<Prop("type", Str(type))>>), "zone", zone)

TargetValues ==
    {TargetNone, Undefined, Obj(<<Prop("type", Str("speed"))>>),
     PaceTarget(Str("5:30"), Str("5:00")), PaceTarget(Str("5:00"), Str("5:30")),
     PaceTarget(Str("abc"), Str("5:00")), PaceTarget(Str("5:30"), Str("0:00")),
     PaceTarget(Undefined, Str("5:00")), PaceTarget(Num(530), Str("5:00")),
     PaceTarget(Str("5:30"), Obj(<<Prop("min", Num(5))>>)),
     ZoneTarget("heartRateZone", Num(3)), ZoneTarget("heartRateZone", Num(6)),
     ZoneTarget("heartRateZone", Rat(5, 2)), ZoneTarget("heartRateZone", Undefined),
     ZoneTarget("powerZone", Num(2)), ZoneTarget("powerZone", Num(0)),
     ZoneTarget("powerZone", Rat(5, 2)),
     MinMaxTarget("heartRate", Num(120), Num(150)), MinMaxTarget("heartRate", Num(120), Undefined),
     MinMaxTarget("power", Num(200), Num(250)), MinMaxTarget("power", Undefined, Num(250)),
     MinMaxTarget("cadence", Num(170), Num(180)), MinMaxTarget("cadence", NaN, Num(180))}

\* workouts of one step: the fields of the step vary
SingleStepWorkouts ==
    {Workout(Str("Intervals"), Str("running"), Arr(<<Step(ty, d, tg)>>)) :
        ty \in StepTypeValues, d \in DurationValues, tg \in TargetValues}

\* a repeat of one step: iterations and the child vary
RepeatWorkouts ==
    {Workout(Str("Intervals"), Str("running"), Arr(<<Repeat(it, <<Step(Str("interval"), d, tg)>>)>>)) :
        it \in {Num(4), Num(0), Rat(5, 2), Undefined},
        d \in {Duration("time", "seconds", 300), Undefined}, tg \in TargetValues}

OtherWorkouts ==
    {IntervalsWorkout, Null, Undefined, Num(3), EmptyObj,
     Workout(Str("Intervals"), Str("running"), Undefined),
     Workout(Str("Intervals"), Str("running"), Arr(<<Null>>)),
     Workout(Str("Intervals"), Str("running"), Arr(<<Num(1)>>)),
     Workout(Str("Intervals"), Str("running"), Arr(<<Repeat(Num(2), <<Null>>)>>)),
     Workout(Str("Intervals"), Str("golf"), Arr(<<>>)),
     Workout(Str("Intervals"), Str("golf"), Arr(<<SprintStep>>)),
     Workout(Str(""), Str("golf"), Arr(<<SprintStep>>)),
     Workout(Str(""), Str("running"), Undefined),
     Arr(<<WarmupStep>>)}

WorkoutInputs ==
    {[f |-> "workout", workout |-> w] :
        w \in TreeWorkouts \cup HeaderWorkouts \cup SingleStepWorkouts \cup RepeatWorkouts
                 \cup OtherWorkouts}

PaceAlphabet == {"0", "3", "5", ":", "-"}

RECURSIVE StringsOfLength(_)
StringsOfLength(n) ==
    IF n = 0 THEN {""}
    ELSE {c \o s : c \in PaceAlphabet, s \in StringsOfLength(n - 1)}

StringsUpTo(n) == UNION {StringsOfLength(k) : k \in 0..n}

PaceInputs ==
    {[f |-> "parsePaceToMps", paceStr |-> v] :
        v \in {Str(s) : s \in StringsUpTo(MaxPaceLen)}
                \cup {Str("abc"), Undefined, Null, Num(530)}
                \cup {Str("1e2:30"), Str("0:1e2"), Str("1e308:0"), Str("1e308:30"),
                      Str("1e309:0"), Str("0:1e309"), Str("-1e308:0"),
                      Str("1e308:1e308")}}

\* pace bounds: every string of the form m:s, and some that are no pace
PaceBounds ==
    {Str(m \o ":" \o sec) : m \in {"0", "3", "5"}, sec \in {"0", "5", "30", "00"}}
        \cup {Str("5"), Str("-5:30"), Undefined}

TargetInputs ==
    {[f |-> "buildGarminTarget", target |-> tg] :
        tg \in TargetValues \cup {PaceTarget(a, b) : a \in PaceBounds, b \in PaceBounds}}

InitAuthor ==
    /\ fn = "none"
    /\ input \in WorkoutInputs \cup PaceInputs \cup TargetInputs
    /\ output = Pending
    /\ pc = "idle"
    /\ req = NoRequest
    /\ calls = <<>>
    /\ resp = NoRequest
    /\ frame = NoFrame
    /\ lastPasswordLoginAttemptByUsername = EmptyMap
    /\ now = StartTime

CallValidateWorkoutPayload ==
    /\ fn = "none"
    /\ input.f = "workout"
    /\ fn' = "validateWorkoutPayload"
    /\ output' = validateWorkoutPayload(input.workout)
    /\ UNCHANGED <<input, httpVars, svcVars>>

CallBuildGarminWorkout ==
    /\ fn = "none"
    /\ input.f = "workout"
    /\ fn' = "buildGarminWorkout"
    /\ output' = buildGarminWorkout(input.workout)
    /\ UNCHANGED <<input, httpVars, svcVars>>

CallParsePaceToMps ==
    /\ fn = "none"
    /\ input.f = "parsePaceToMps"
    /\ fn' = "parsePaceToMps"
    /\ output' = parsePaceToMps(input.paceStr)
    /\ UNCHANGED <<input, httpVars, svcVars>>

CallBuildGarminTarget ==
    /\ fn = "none"
    /\ input.f = "buildGarminTarget"
    /\ fn' = "buildGarminTarget"
    /\ output' = buildGarminTarget(input.target)
    /\ UNCHANGED <<input, httpVars, svcVars>>

NextAuthor ==
    \/ CallValidateWorkoutPayload
    \/ CallBuildGarminWorkout
    \/ CallParsePaceToMps
    \/ CallBuildGarminTarget

SpecAuthor == InitAuthor /\ [][NextAuthor]_vars

-----------------------------------------------------------------------------
(* POST /garmin/workout/create *)

\* v?.k
OptGet(v, k) == IF v.t \in {"undefined", "null"} THEN Undefined ELSE GetProp(v, k)

StartsWith(s, prefix) == Len(s) >= Len(prefix) /\ SubSeq(s, 1, Len(prefix)) = prefix

\* some part of s is sub
Contains(s, sub) ==
    \E i \in 1..(Len(s) - Len(sub) + 1) : SubSeq(s, i, i + Len(sub) - 1) = sub

\* the token of an Authorization header: what follows "Bearer ", else ""
bearerToken(auth) == IF StartsWith(auth, "Bearer ") THEN SubSeq(auth, 8, Len(auth)) ELSE ""

\* a gate without the test of process.env.API_KEY
requireApiKeyWithoutEnvTest(r) ==
    Str(bearerToken(OrElse(r.authorization, Str("")).s)) = OrElse(r.apiKey, Str(""))

\* requireApiKey calls next(): the key is configured and the token equals it
requireApiKey(r) ==
    /\ Truthy(r.apiKey)
    /\ Str(bearerToken(OrElse(r.authorization, Str("")).s)) = r.apiKey

\* /^\d{4}-\d{2}-\d{2}$/.test(s)
IsDateString(s) ==
    /\ Len(s) = 10
    /\ \A i \in {1, 2, 3, 4, 6, 7, 9, 10} : IsDigit(CharAt(s, i))
    /\ CharAt(s, 5) = "-"
    /\ CharAt(s, 8) = "-"

\* scheduleDate is given and is no YYYY-MM-DD string
BadScheduleDate(scheduleDate) ==
    /\ scheduleDate # Undefined
    /\ scheduleDate # Null
    /\ (scheduleDate.t # "string" \/ ~IsDateString(scheduleDate.s))

getUsernameFromReq(body) ==
    OrElse(OrElse(OptGet(body, "username"), OptGet(body, "email")), Str(""))

Response(status, body) == [status |-> status, body |-> body]

Call(name, arg) == [fn |-> name, arg |-> arg]

\* the handler has answered
Done(response, made) == [pc |-> "done", resp |-> response, calls |-> made]

\* the handler waits for the call it has just made
Awaiting(position, made) == [pc |-> position, resp |-> NoRequest, calls |-> made]

\* /token|unauthorized|auth|expired|session|403|401/i.test(msg)
isTokenError(msg) ==
    \E word \in {"token", "unauthorized", "auth", "expired", "session", "403", "401"} :
        Contains(ToLowerCase(msg), word)

GARMIN_LOGIN_TIMEOUT_MS == 15000
GARMIN_API_TIMEOUT_MS == 10000

\* new GarminTimeoutError(ms)
GarminTimeoutError(ms) ==
    [kind |-> "GarminTimeoutError",
     message |-> "Garmin API call timed out after " \o ToString(ms) \o "ms"]

\* what withTimeout(promise, GARMIN_API_TIMEOUT_MS) rejects with when its timer fires
TimeoutError == GarminTimeoutError(GARMIN_API_TIMEOUT_MS)
Error(message) == [kind |-> "Error", message |-> message]

\* a catch block without the instanceof GarminTimeoutError test
catchResponseWithoutTimeoutTest(e) ==
    IF isTokenError(e.message)
    THEN Response(401, Failure("Token expired or invalid. Re-authenticate via /garmin/connect."))
    ELSE Response(500, Failure("Garmin request failed"))

\* the catch block of withGarminToken
catchResponse(e) ==
    IF e.kind = "GarminTimeoutError"
    THEN Response(504, Failure("Garmin API timed out. Please try again."))
    ELSE IF isTokenError(e.message)
    THEN Response(401, Failure("Token expired or invalid. Re-authenticate via /garmin/connect."))
    ELSE Response(500, Failure("Garmin request failed"))

\* withGarminToken up to its first await
withGarminToken(body) ==
    IF ~Truthy(getUsernameFromReq(body))
    THEN Done(Response(400, Failure("Missing username (or email)")), <<>>)
    ELSE IF ~Truthy(OptGet(OptGet(body, "tokenJson"), "oauth1"))
            \/ ~Truthy(OptGet(OptGet(body, "tokenJson"), "oauth2"))
    THEN Done(Response(400, Failure("Missing tokenJson.oauth1/oauth2")), <<>>)
    ELSE Awaiting("loadToken",
                  <<Call("createGarminClientForTokenOnly", getUsernameFromReq(body)),
                    Call("loadToken", OptGet(body, "tokenJson"))>>)

\* the handler once validateWorkoutPayload has returned or thrown; an exception
\* leaves the handler, and Express answers it with status 500
afterValidation(body, validation) ==
    IF IsThrow(validation) THEN Done(Response(500, Undefined), <<>>)
    ELSE IF ~Truthy(GetProp(validation, "ok"))
    THEN Done(Response(400, Obj(<<Prop("ok", Bool(FALSE)),
                                  Prop("error", GetProp(validation, "error"))>>)), <<>>)
    ELSE IF BadScheduleDate(OptGet(body, "scheduleDate"))
    THEN Done(Response(400, Failure("scheduleDate must be YYYY-MM-DD format")), <<>>)
    ELSE withGarminToken(body)

\* the route, from requireApiKey to the first await of the handler
postWorkoutCreate(r) ==
    IF ~requireApiKey(r) THEN Done(Response(401, Failure("Unauthorized")), <<>>)
    ELSE afterValidation(r.body, validateWorkoutPayload(OptGet(r.body, "workout")))

\* the handler moves to the position, the response and the calls of next
Becomes(next) ==
    /\ pc' = next.pc
    /\ resp' = next.resp
    /\ calls' = next.calls

\* an awaited call has rejected with e: the catch block answers
Caught(e) == Becomes(Done(catchResponse(e), calls))

\* the action passed to withGarminToken, up to its first await
startAction(workout, garminWorkout) ==
    IF IsThrow(garminWorkout)
    THEN Done(catchResponse(Error("Cannot read properties of undefined")),
              Append(calls, Call("buildGarminWorkout", workout)))
    ELSE Awaiting("createWorkout",
                  calls \o <<Call("buildGarminWorkout", workout),
                             Call("createWorkout", garminWorkout)>>)

\* the action scheduling whenever a scheduleDate is given, whatever createWorkout
\* resolved with
afterCreateSchedulingWithoutId(scheduleDate, created) ==
    IF created.t \in {"undefined", "null"}
    THEN Done(catchResponse(Error("Cannot read properties of undefined (reading 'workoutId')")),
              calls)
    ELSE IF Truthy(scheduleDate)
    THEN Awaiting("scheduleWorkout",
                  Append(calls,
                         Call("scheduleWorkout",
                              Arr(<<Obj(<<Prop("workoutId",
                                               Str(TemplateString(GetProp(created, "workoutId"))))>>),
                                    scheduleDate>>))))
    ELSE Awaiting("exportToken", Append(calls, Call("exportToken", Undefined)))

\* the action once createWorkout has resolved with created
afterCreate(scheduleDate, created) ==
    IF created.t \in {"undefined", "null"}
    THEN Done(catchResponse(Error("Cannot read properties of undefined (reading 'workoutId')")),
              calls)
    ELSE IF Truthy(scheduleDate) /\ Truthy(GetProp(created, "workoutId"))
    THEN Awaiting("scheduleWorkout",
                  Append(calls,
                         Call("scheduleWorkout",
                              Arr(<<Obj(<<Prop("workoutId",
                                               Str(TemplateString(GetProp(created, "workoutId"))))>>),
                                    scheduleDate>>))))
    ELSE Awaiting("exportToken", Append(calls, Call("exportToken", Undefined)))

\* const result = { workoutId: created.workoutId, workoutName: created.workoutName }
resultOf(created) ==
    Obj(<<Prop("workoutId", OptGet(created, "workoutId")),
          Prop("workoutName", OptGet(created, "workoutName"))>>)

-----------------------------------------------------------------------------
(* One request to POST /garmin/workout/create, step by step *)

Headers == {Undefined, Str("Bearer secret"), Str("Bearer wrong"), Str("secret")}

ApiKeys == {Str("secret"), Undefined}

FullToken == Obj(<<Prop("oauth1", Str("o1")), Prop("oauth2", Str("o2"))>>)

TokenValues == {Undefined, Obj(<<Prop("oauth1", Str("o1"))>>), FullToken}

ScheduleDates ==
    {Undefined, Null, Str("2026-03-15"), Str("March 15"), Str("2026-3-15"), Str(""),
     Num(20260315)}

RequestWorkouts ==
    {Undefined, IntervalsWorkout,
     Workout(Str("Intervals"), Str("golf"), Arr(<<WarmupStep>>)),
     Workout(Str("Intervals"), Str("running"), Arr(<<SprintStep>>)),
     Workout(Str("Intervals"), Str("running"), Arr(<<Repeat(Num(2), <<InnerRepeat>>)>>)),
     Workout(Str("Intervals"), Str("running"), Arr(<<NumericPaceStep>>))}

Bodies ==
    {Undefined} \cup
    {WithOptional(WithOptional(WithOptional(WithOptional(WithOptional(EmptyObj,
        "username", u), "email", e), "tokenJson", t), "workout", w), "scheduleDate", d) :
        u \in {Undefined, Str("runner")}, e \in {Undefined, Str("runner@example.com")},
        t \in TokenValues, w \in RequestWorkouts, d \in ScheduleDates}

Requests ==
    {[apiKey |-> k, authorization |-> h, body |-> b] :
        k \in ApiKeys, h \in Headers, b \in Bodies}

\* what a remote call can reject with
RemoteErrors == {Error("Token expired"), Error("socket hang up")}

\* what createWorkout can resolve with
CreatedValues ==
    {Obj(<<Prop("workoutId", Num(42)), Prop("workoutName", Str("Intervals"))>>),
     Obj(<<Prop("workoutName", Str("Intervals"))>>), Undefined}

RefreshedToken == Obj(<<Prop("oauth1", Str("o1r")), Prop("oauth2", Str("o2r"))>>)

InitCreate ==
    /\ fn = "none"
    /\ input = Pending
    /\ output = Pending
    /\ pc = "idle"
    /\ req = NoRequest
    /\ calls = <<>>
    /\ resp = NoRequest
    /\ frame = NoFrame
    /\ lastPasswordLoginAttemptByUsername = EmptyMap
    /\ now = StartTime

\* a request arrives: requireApiKey, then the handler up to its first await
PostWorkoutCreate ==
    /\ pc = "idle"
    /\ \E r \in Requests :
          /\ req' = r
          /\ Becomes(postWorkoutCreate(r))
    /\ UNCHANGED <<pureVars, svcVars, frame>>

\* client.loadToken resolves: the action starts and calls createWorkout
LoadTokenResolves ==
    /\ pc = "loadToken"
    /\ Becomes(startAction(GetProp(req.body, "workout"),
                           buildGarminWorkout(GetProp(req.body, "workout"))))
    /\ UNCHANGED <<pureVars, svcVars, req, frame>>

LoadTokenRejects ==
    /\ pc = "loadToken"
    /\ \E e \in RemoteErrors : Caught(e)
    /\ UNCHANGED <<pureVars, svcVars, req, frame>>

\* createWorkout resolves before the timer of withTimeout fires
CreateWorkoutResolves ==
    /\ pc = "createWorkout"
    /\ \E created \in CreatedValues :
          /\ Becomes(afterCreate(GetProp(req.body, "scheduleDate"), created))
          /\ frame' = [result |-> resultOf(created)]
    /\ UNCHANGED <<pureVars, svcVars, req>>

\* createWorkout rejects, or the timer of withTimeout fires first
CreateWorkoutFails ==
    /\ pc = "createWorkout"
    /\ \E e \in RemoteErrors \cup {TimeoutError} : Caught(e)
    /\ UNCHANGED <<pureVars, svcVars, req, frame>>

ScheduleWorkoutResolves ==
    /\ pc = "scheduleWorkout"
    /\ Becomes(Awaiting("exportToken", Append(calls, Call("exportToken", Undefined))))
    /\ frame' = [result |-> SetProp(SetProp(frame.result, "scheduled", Bool(TRUE)),
                                    "scheduleDate", GetProp(req.body, "scheduleDate"))]
    /\ UNCHANGED <<pureVars, svcVars, req>>

ScheduleWorkoutFails ==
    /\ pc = "scheduleWorkout"
    /\ \E e \in RemoteErrors \cup {TimeoutError} : Caught(e)
    /\ UNCHANGED <<pureVars, svcVars, req, frame>>

\* exportToken resolves: res.json({ ok: true, ...result, tokenJson: refreshed })
ExportTokenResolves ==
    /\ pc = "exportToken"
    /\ Becomes(Done(Response(200, SetProp(Spread(Obj(<<Prop("ok", Bool(TRUE))>>), frame.result),
                                          "tokenJson", RefreshedToken)),
                    calls))
    /\ UNCHANGED <<pureVars, svcVars, req, frame>>

ExportTokenRejects ==
    /\ pc = "exportToken"
    /\ \E e \in RemoteErrors : Caught(e)
    /\ UNCHANGED <<pureVars, svcVars, req, frame>>

NextCreate ==
    \/ PostWorkoutCreate
    \/ LoadTokenResolves
    \/ LoadTokenRejects
    \/ CreateWorkoutResolves
    \/ CreateWorkoutFails
    \/ ScheduleWorkoutResolves
    \/ ScheduleWorkoutFails
    \/ ExportTokenResolves
    \/ ExportTokenRejects

SpecCreate == InitCreate /\ [][NextCreate]_vars

-----------------------------------------------------------------------------
(* Claims about the translator *)

Accepted == Obj(<<Prop("ok", Bool(TRUE))>>)

\* the nodes of the workout built: workoutSegments[0].workoutSteps
BuiltSteps == GetProp(GetProp(output, "workoutSegments").a[1], "workoutSteps").a

IsGroup(node) == GetProp(node, "type") = Str("RepeatGroupDTO")

\* the children of a node built: those of a repeat group, none for a step
BuiltChildren(node) == IF IsGroup(node) THEN GetProp(node, "workoutSteps").a ELSE <<>>

RECURSIVE PreOrderIds(_)
\* the stepIds of the nodes in document order: each node, then its children
PreOrderIds(nodes) ==
    IF nodes = <<>> THEN <<>>
    ELSE <<GetProp(Head(nodes), "stepId")>>
         \o [j \in 1..Len(BuiltChildren(Head(nodes))) |->
                GetProp(BuiltChildren(Head(nodes))[j], "stepId")]
         \o PreOrderIds(Tail(nodes))

\* C1: for a workout that validateWorkoutPayload accepts, the stepIds that
\* buildGarminWorkout assigns are, in document order over steps, repeat groups and
\* their children, exactly 1, 2, ..., N; the first child of a repeat group has the
\* id of the group plus 1, and the node after a group of k children has the id of
\* the group plus k + 1.
C1_PreOrderStepIds ==
    (/\ fn = "buildGarminWorkout"
     /\ validateWorkoutPayload(input.workout) = Accepted
     /\ output.t = "object")
    => /\ \A n \in 1..Len(PreOrderIds(BuiltSteps)) : PreOrderIds(BuiltSteps)[n] = Num(n)
       /\ \A i \in 1..Len(BuiltSteps) :
             IsGroup(BuiltSteps[i]) =>
                /\ \A j \in 1..Len(BuiltChildren(BuiltSteps[i])) :
                      GetProp(BuiltChildren(BuiltSteps[i])[j], "stepId").n
                         = GetProp(BuiltSteps[i], "stepId").n + j
                /\ i < Len(BuiltSteps) =>
                      GetProp(BuiltSteps[i + 1], "stepId").n
                         = GetProp(BuiltSteps[i], "stepId").n
                              + Len(BuiltChildren(BuiltSteps[i])) + 1

\* warmup, repeat of 2 children, cooldown is accepted and numbered 1, 2, {3, 4}, 5
C1_Witness ==
    /\ fn = "buildGarminWorkout"
    /\ input.workout = IntervalsWorkout
    /\ validateWorkoutPayload(input.workout) = Accepted
    /\ output.t = "object"
    /\ PreOrderIds(BuiltSteps) = <<Num(1), Num(2), Num(3), Num(4), Num(5)>>

\* both bounds of a pace target convert to a speed
ValidPaceBounds(target) ==
    /\ GetProp(target, "type") = Str("pace")
    /\ GetProp(target, "minPerKm").t = "string"
    /\ GetProp(target, "maxPerKm").t = "string"
    /\ Truthy(parsePaceToMps(GetProp(target, "minPerKm")))
    /\ Truthy(parsePaceToMps(GetProp(target, "maxPerKm")))

\* C2: for a pace target whose two bounds are valid paces, buildGarminTarget emits
\* the slower bound as targetValueOne and the faster as targetValueTwo, whichever
\* of minPerKm and maxPerKm carries the slower pace: targetValueOne <= targetValueTwo.
C2_SlowerBoundFirst ==
    (fn = "buildGarminTarget" /\ ValidPaceBounds(input.target))
    => /\ output.t = "object"
       /\ NumLeq(GetProp(output, "targetValueOne"), GetProp(output, "targetValueTwo"))

\* the steps of a workout, none when it has no list of steps
StepsOf(workout) ==
    IF GetProp(workout, "steps").t = "array" THEN GetProp(workout, "steps").a ELSE <<>>

\* some repeat step of the workout has a child of type repeat
HasNestedRepeat(workout) ==
    \E i \in 1..Len(StepsOf(workout)) :
        /\ GetProp(StepsOf(workout)[i], "type") = Str("repeat")
        /\ \E j \in 1..Len(StepsOf(StepsOf(workout)[i])) :
              GetProp(StepsOf(StepsOf(workout)[i])[j], "type") = Str("repeat")

\* { ok: false, error } with an error message
IsRejection(v) ==
    /\ v.t = "object"
    /\ GetProp(v, "ok") = Bool(FALSE)
    /\ GetProp(v, "error").t = "string"

\* C7: validateWorkoutPayload answers ok: false with a non-null error for every
\* workout in which a repeat step has a child of type repeat, whatever the other
\* fields of the workout are.
C7_NestedRepeatRejected ==
    (fn = "validateWorkoutPayload" /\ HasNestedRepeat(input.workout))
    => IsRejection(output)

\* the same, for the calls that return: a nested repeat is never accepted
C7_NestedRepeatNotAccepted ==
    (fn = "validateWorkoutPayload" /\ HasNestedRepeat(input.workout))
    => (IsRejection(output) \/ IsThrow(output))

\* the build of one step or child gives no node
StepBuildFails(step) ==
    step.t \in {"undefined", "null"} \/ buildGarminStep(step, 1).t # "object"

\* the build of some top-level step, or of some child of a repeat, gives no node
SomeBuildFails(workout) ==
    \E i \in 1..Len(StepsOf(workout)) :
        IF GetProp(StepsOf(workout)[i], "type") = Str("repeat")
        THEN \E j \in 1..Len(StepsOf(StepsOf(workout)[i])) :
                StepBuildFails(StepsOf(StepsOf(workout)[i])[j])
        ELSE StepBuildFails(StepsOf(workout)[i])

\* node is the node of the input step: a group for a repeat, a step of its type else
NodeOfStep(node, step) ==
    IF GetProp(step, "type") = Str("repeat")
    THEN IsGroup(node)
    ELSE /\ GetProp(node, "type") = Str("ExecutableStepDTO")
         /\ GetProp(node, "stepType") = Lookup(STEP_TYPE_MAP, GetProp(step, "type"))

\* the nodes are the nodes of the steps, one each, in order
NodesOfSteps(nodes, steps) ==
    /\ Len(nodes) = Len(steps)
    /\ \A i \in 1..Len(steps) : NodeOfStep(nodes[i], steps[i])

\* C8: when the build of a top-level step or of a child of a repeat fails,
\* buildGarminWorkout returns null; when it returns a workout, the workout has one
\* node per input step and every repeat group one child per input child, in order.
C8_NoPartialWorkout ==
    (fn = "buildGarminWorkout" /\ GetProp(input.workout, "steps").t = "array")
    => /\ SomeBuildFails(input.workout) => output = Null
       /\ output.t = "object" =>
             /\ NodesOfSteps(BuiltSteps, StepsOf(input.workout))
             /\ \A i \in 1..Len(BuiltSteps) :
                   NodesOfSteps(BuiltChildren(BuiltSteps[i]),
                                StepsOf(StepsOf(input.workout)[i]))

\* the same, with an exception counted as no workout
C8_NullOrThrownOnFailure ==
    (fn = "buildGarminWorkout" /\ GetProp(input.workout, "steps").t = "array")
    => /\ SomeBuildFails(input.workout) => output \in {Null, Throw}
       /\ output.t = "object" =>
             /\ NodesOfSteps(BuiltSteps, StepsOf(input.workout))
             /\ \A i \in 1..Len(BuiltSteps) :
                   NodesOfSteps(BuiltChildren(BuiltSteps[i]),
                                StepsOf(StepsOf(input.workout)[i]))

CoreFunctions ==
    {"validateWorkoutPayload", "parsePaceToMps", "buildGarminWorkout",
     "flattenActivityDetail", "transformSplitSummaries", "buildWorkoutResponse"}

\* C10: validateWorkoutPayload, parsePaceToMps, buildGarminWorkout,
\* flattenActivityDetail, transformSplitSummaries and buildWorkoutResponse never
\* throw: every input gives a value.
C10_NeverThrows == fn \in CoreFunctions => ~IsThrow(output)

-----------------------------------------------------------------------------
(* Claims about POST /garmin/workout/create *)

\* a request has passed requireApiKey: the handler has run
HandlerRan == req # NoRequest /\ requireApiKey(req)

\* the names of the calls made so far
Invoked == {calls[i].fn : i \in 1..Len(calls)}

CompilationAndRemoteCalls ==
    {"buildGarminWorkout", "loadToken", "createWorkout", "scheduleWorkout"}

\* validateWorkoutPayload returns a result that is not ok
ValidationNotOk(workout) ==
    /\ ~IsThrow(validateWorkoutPayload(workout))
    /\ ~Truthy(GetProp(validateWorkoutPayload(workout), "ok"))

\* C9: when validateWorkoutPayload(workout) is not ok, or scheduleDate is given and
\* is no YYYY-MM-DD string, the request ends with a 400 response, and
\* buildGarminWorkout, loadToken, createWorkout and scheduleWorkout are never
\* invoked for it.
C9_ValidationPrecedesCalls ==
    (/\ HandlerRan
     /\ \/ ValidationNotOk(OptGet(req.body, "workout"))
        \/ BadScheduleDate(OptGet(req.body, "scheduleDate")))
    => /\ pc = "done"
       /\ resp.status = 400
       /\ Invoked \cap CompilationAndRemoteCalls = {}

\* the part of C9 that holds whatever validateWorkoutPayload does: a request whose
\* workout is not accepted, or whose scheduleDate is bad, is answered at once,
\* with 400 or by the exception of validateWorkoutPayload, and makes no call
C9_NoCallUnlessValid ==
    (/\ HandlerRan
     /\ \/ validateWorkoutPayload(OptGet(req.body, "workout")) # Accepted
        \/ BadScheduleDate(OptGet(req.body, "scheduleDate")))
    => /\ pc = "done"
       /\ resp.status \in {400, 500}
       /\ resp.status = 500 => IsThrow(validateWorkoutPayload(OptGet(req.body, "workout")))
       /\ calls = <<>>

-----------------------------------------------------------------------------
(* Claims about the sport of a workout built *)

\* C20: buildGarminWorkout called with a sport that is not in the sport table
\* returns null, and never returns a workout object whose sportType is null.
C20_UnknownSportAborts ==
    (/\ fn = "buildGarminWorkout"
     /\ input.workout.t = "object"
     /\ GetProp(input.workout, "steps").t = "array")
    => /\ GetProp(input.workout, "sport") \notin VALID_SPORTS => output = Null
       /\ output.t = "object" => GetProp(output, "sportType") # Null

-----------------------------------------------------------------------------
(* Claims about scheduling in POST /garmin/workout/create *)

\* the calls of scheduleWorkout made so far
ScheduleCalls == SelectSeq(calls, LAMBDA c : c.fn = "scheduleWorkout")

\* createWorkout has been called and has resolved: the handler holds its result
CreateSucceeded == "createWorkout" \in Invoked /\ frame # NoFrame

\* createWorkout has been called and the request has ended without its result
CreateFailed == "createWorkout" \in Invoked /\ pc = "done" /\ frame = NoFrame

\* the response says the workout was scheduled
SaysScheduled ==
    /\ resp # NoRequest
    /\ resp.body.t = "object"
    /\ GetProp(resp.body, "scheduled") = Bool(TRUE)

\* C17: scheduleWorkout is called at most once, only after createWorkout has
\* succeeded, only when a scheduleDate was supplied and the created workout has a
\* workoutId, and with that workoutId as a string; when createWorkout fails or no
\* scheduleDate is given, scheduleWorkout is never called and the response does not
\* carry scheduled: true.
C17_ScheduleOnlyAfterCreate ==
    HandlerRan =>
       /\ Len(ScheduleCalls) <= 1
       /\ Len(ScheduleCalls) = 1 =>
             /\ CreateSucceeded
             /\ \E i, j \in 1..Len(calls) :
                   i < j /\ calls[i].fn = "createWorkout" /\ calls[j].fn = "scheduleWorkout"
             /\ OptGet(req.body, "scheduleDate").t = "string"
             /\ GetProp(frame.result, "workoutId").t = "number"
             /\ GetProp(frame.result, "workoutId") # Num(0)
             /\ ScheduleCalls[1].arg =
                   Arr(<<Obj(<<Prop("workoutId",
                                    Str(ToString(GetProp(frame.result, "workoutId").n)))>>),
                         OptGet(req.body, "scheduleDate")>>)
       /\ (CreateFailed \/ OptGet(req.body, "scheduleDate") \in {Undefined, Null}) =>
             /\ Len(ScheduleCalls) = 0
             /\ ~SaysScheduled
       /\ SaysScheduled => Len(ScheduleCalls) = 1

\* a workout was created and scheduled: scheduleWorkout was called with the id
\* "42" and the response says scheduled: true
C17_Witness ==
    /\ HandlerRan
    /\ pc = "done"
    /\ resp.status = 200
    /\ SaysScheduled
    /\ Len(ScheduleCalls) = 1
    /\ GetProp(ScheduleCalls[1].arg.a[1], "workoutId") = Str("42")

-----------------------------------------------------------------------------
(* POST /garmin/connect: token first, then password login behind a cooldown *)

PASSWORD_LOGIN_COOLDOWN_MS == 10 * 60 * 1000

\* lastPasswordLoginAttemptByUsername.get(username) || 0
lastAttempt(username) ==
    IF username \in DOMAIN lastPasswordLoginAttemptByUsername
    THEN lastPasswordLoginAttemptByUsername[username]
    ELSE 0

\* a gate with one cooldown for all usernames: the latest mark of anyone counts
canAttemptWithSharedCooldown(username) ==
    LET marks == {lastPasswordLoginAttemptByUsername[u] :
                     u \in DOMAIN lastPasswordLoginAttemptByUsername} \cup {0}
        last == CHOOSE m \in marks : \A k \in marks : k <= m
        waitMs == PASSWORD_LOGIN_COOLDOWN_MS - (now - last)
    IN  [ok |-> waitMs <= 0, waitMs |-> IF waitMs > 0 THEN waitMs ELSE 0]

\* { ok: waitMs <= 0, waitMs: Math.max(0, waitMs) } at the time now
canAttemptPasswordLogin(username) ==
    LET waitMs == PASSWORD_LOGIN_COOLDOWN_MS - (now - lastAttempt(username))
    IN  [ok |-> waitMs <= 0, waitMs |-> IF waitMs > 0 THEN waitMs ELSE 0]

\* the map after lastPasswordLoginAttemptByUsername.set(username, Date.now())
markPasswordLoginAttempt(username) ==
    [u \in DOMAIN lastPasswordLoginAttemptByUsername \cup {username} |->
        IF u = username THEN now ELSE lastPasswordLoginAttemptByUsername[u]]

\* Math.ceil(ms / 1000) for ms >= 0
CeilSeconds(ms) == (ms + 999) \div 1000

\* the arguments loadTokenIntoClient passes to client.loadToken
loadTokenIntoClient(tokenJson) ==
    IF Truthy(OptGet(tokenJson, "oauth1")) /\ Truthy(OptGet(tokenJson, "oauth2"))
    THEN Call("loadToken", Arr(<<GetProp(tokenJson, "oauth1"), GetProp(tokenJson, "oauth2")>>))
    ELSE Call("loadToken", Arr(<<tokenJson>>))

\* how the awaited calls of the request have settled so far, oldest first; result
\* is the local of that name
Frame(result, settled) == [result |-> result, settled |-> settled]

\* the awaited call name has settled: "resolved", "rejected" or "timeout"
Settle(name, outcome) == [fn |-> name, outcome |-> outcome]

\* the handler moves to next, and the last awaited call is recorded as settled
BecomesAfter(name, outcome, next) ==
    /\ Becomes(next)
    /\ frame' = Frame(frame.result, Append(frame.settled, Settle(name, outcome)))

\* the catch block of POST /garmin/connect
connectCatch(e) ==
    IF e.kind = "GarminTimeoutError"
    THEN Response(504, Failure("Garmin API timed out. Please try again."))
    ELSE Response(500, Failure(e.message))

\* 2) PASSWORD LOGIN: the cooldown gate, then client.login(); made is the calls
\* made before the gate
passwordLogin(username, made) ==
    IF ~canAttemptPasswordLogin(username.s).ok
    THEN Done(Response(429, Failure("Cooldown active. Wait "
                  \o ToString(CeilSeconds(canAttemptPasswordLogin(username.s).waitMs))
                  \o "s before trying password login again.")),
              Append(made, Call("canAttemptPasswordLogin", username)))
    ELSE Awaiting("connect.login",
                  made \o <<Call("canAttemptPasswordLogin", username),
                            Call("login", Undefined)>>)

\* { ok: true, dryRun: true, received: { ... } }
dryRunResponse(r, username, password) ==
    Obj(<<Prop("ok", Bool(TRUE)), Prop("dryRun", Bool(TRUE)),
          Prop("received",
               Obj(<<Prop("hasUsername", Bool(Truthy(username))),
                     Prop("hasPassword", Bool(Truthy(password))),
                     Prop("hasTokenJson", Bool(Truthy(OptGet(r.body, "tokenJson")))),
                     Prop("contentType", Null)>>))>>)

\* the handler from its start to its first await, given the credentials read
connectWith(r, username, password) ==
    IF OptGet(r.body, "dryRun") = Bool(TRUE)
    THEN Done(Response(200, dryRunResponse(r, username, password)), <<>>)
    ELSE IF ~Truthy(username) \/ ~Truthy(password)
    THEN Done(Response(400, Failure("Missing credentials. Provide username (or email) and password.")),
              <<>>)
    ELSE IF Truthy(OptGet(r.body, "tokenJson"))
    THEN Awaiting("connect.loadToken",
                  <<Call("createGarminClientForLogin", Arr(<<username, password>>)),
                    loadTokenIntoClient(OptGet(r.body, "tokenJson"))>>)
    ELSE passwordLogin(username,
                       <<Call("createGarminClientForLogin", Arr(<<username, password>>))>>)

\* the route, from requireApiKey to the first await of the handler
postGarminConnect(r) ==
    IF ~requireApiKey(r) THEN Done(Response(401, Failure("Unauthorized")), <<>>)
    ELSE connectWith(r, getUsernameFromReq(r.body), OrElse(OptGet(r.body, "password"), Str("")))

-----------------------------------------------------------------------------
(* Requests to POST /garmin/connect, one after another, while time passes *)

\* milliseconds after StartTime at which the clock is read
Elapsed == {0, 300000, 599999, 600000, 900000}

Times == {StartTime + e : e \in Elapsed}

ConnectIdentities ==
    {EmptyObj, Obj(<<Prop("username", Str("ann"))>>), Obj(<<Prop("username", Str("bob"))>>),
     Obj(<<Prop("email", Str("ann"))>>)}

ConnectBodies ==
    {Undefined} \cup
    {WithOptional(WithOptional(WithOptional(who, "password", p), "tokenJson", t), "dryRun", d) :
        who \in ConnectIdentities, p \in {Undefined, Str("pw")},
        t \in {Undefined, FullToken}, d \in {Undefined, Bool(TRUE)}}

Route(method, path) == [method |-> method, path |-> path]

Request(key, header, route, body) ==
    [apiKey |-> key, authorization |-> header, method |-> route.method,
     path |-> route.path, body |-> body]

\* the API_KEY of the environment and the Authorization header of a request: the
\* pair that passes requireApiKey, and pairs that do not
Authorized == <<Str("secret"), Str("Bearer secret")>>

Unauthorized ==
    {<<Str("secret"), Undefined>>, <<Str("secret"), Str("Bearer wrong")>>,
     <<Str("secret"), Str("secret")>>, <<Undefined, Str("Bearer secret")>>,
     <<Undefined, Str("Bearer ")>>, <<Str(""), Str("Bearer ")>>}

\* the requests to a route: with the key and each of bodies, without it and each
\* of probes
RequestsTo(route, bodies, probes) ==
    {Request(Authorized[1], Authorized[2], route, b) : b \in bodies}
    \cup {Request(c[1], c[2], route, b) : c \in Unauthorized, b \in probes}

ConnectRequests ==
    RequestsTo(Route("POST", "/garmin/connect"), ConnectBodies,
               {Undefined, Obj(<<Prop("username", Str("ann")), Prop("password", Str("pw"))>>)})

\* the username of the request being handled
Username == getUsernameFromReq(req.body)

\* a request arrives, the first or after the last was answered
PostGarminConnect ==
    /\ pc \in {"idle", "done"}
    /\ \E r \in ConnectRequests :
          /\ req' = r
          /\ Becomes(postGarminConnect(r))
    /\ frame' = Frame(Undefined, <<>>)
    /\ UNCHANGED <<pureVars, svcVars>>

\* loadTokenIntoClient resolves: the token is validated with getUserProfile
ConnectLoadTokenResolves ==
    /\ pc = "connect.loadToken"
    /\ BecomesAfter("loadToken", "resolved",
                    Awaiting("connect.getUserProfile",
                             Append(calls, Call("getUserProfile", Undefined))))
    /\ UNCHANGED <<pureVars, svcVars, req>>

\* a handler that answers 500 when the token cannot be loaded
ConnectLoadTokenRejectsWithoutFallback ==
    /\ pc = "connect.loadToken"
    /\ \E e \in RemoteErrors :
          BecomesAfter("loadToken", "rejected", Done(connectCatch(e), calls))
    /\ UNCHANGED <<pureVars, svcVars, req>>

\* loadTokenIntoClient rejects: the inner catch logs, the password path follows
ConnectLoadTokenRejects ==
    /\ pc = "connect.loadToken"
    /\ \E e \in RemoteErrors :
          BecomesAfter("loadToken", "rejected", passwordLogin(Username, calls))
    /\ UNCHANGED <<pureVars, svcVars, req>>

\* getUserProfile resolves before the timer: the token is exported
ConnectGetUserProfileResolves ==
    /\ pc = "connect.getUserProfile"
    /\ BecomesAfter("getUserProfile", "resolved",
                    Awaiting("connect.exportToken", Append(calls, Call("exportToken", Undefined))))
    /\ UNCHANGED <<pureVars, svcVars, req>>

ConnectGetUserProfileRejects ==
    /\ pc = "connect.getUserProfile"
    /\ \E e \in RemoteErrors :
          BecomesAfter("getUserProfile", "rejected", passwordLogin(Username, calls))
    /\ UNCHANGED <<pureVars, svcVars, req>>

\* a handler whose inner catch swallows the timeout like any other error
ConnectGetUserProfileTimesOutFallingBack ==
    /\ pc = "connect.getUserProfile"
    /\ BecomesAfter("getUserProfile", "timeout", passwordLogin(Username, calls))
    /\ UNCHANGED <<pureVars, svcVars, req>>

\* the timer of withTimeout fires first: the inner catch rethrows
ConnectGetUserProfileTimesOut ==
    /\ pc = "connect.getUserProfile"
    /\ BecomesAfter("getUserProfile", "timeout", Done(connectCatch(TimeoutError), calls))
    /\ UNCHANGED <<pureVars, svcVars, req>>

ConnectExportTokenResolves ==
    /\ pc = "connect.exportToken"
    /\ BecomesAfter("exportToken", "resolved",
                    Done(Response(200, Obj(<<Prop("ok", Bool(TRUE)),
                                             Prop("tokenJson", RefreshedToken)>>)),
                         calls))
    /\ UNCHANGED <<pureVars, svcVars, req>>

\* exportToken rejects inside the inner try: the password path follows
ConnectExportTokenRejects ==
    /\ pc = "connect.exportToken"
    /\ \E e \in RemoteErrors :
          BecomesAfter("exportToken", "rejected", passwordLogin(Username, calls))
    /\ UNCHANGED <<pureVars, svcVars, req>>

\* login resolves before the timer: the username is marked, the token exported
LoginResolves ==
    /\ pc = "connect.login"
    /\ BecomesAfter("login", "resolved",
                    Awaiting("connect.exportAfterLogin",
                             calls \o <<Call("markPasswordLoginAttempt", Username),
                                        Call("exportToken", Undefined)>>))
    /\ lastPasswordLoginAttemptByUsername' = markPasswordLoginAttempt(Username.s)
    /\ UNCHANGED <<pureVars, now, req>>

\* a handler that marks the username before it knows that login succeeded
LoginRejectsBurningCooldown ==
    /\ pc = "connect.login"
    /\ \E e \in RemoteErrors :
          BecomesAfter("login", "rejected", Done(connectCatch(e), calls))
    /\ lastPasswordLoginAttemptByUsername' = markPasswordLoginAttempt(Username.s)
    /\ UNCHANGED <<pureVars, now, req>>

LoginRejects ==
    /\ pc = "connect.login"
    /\ \E e \in RemoteErrors :
          BecomesAfter("login", "rejected", Done(connectCatch(e), calls))
    /\ UNCHANGED <<pureVars, svcVars, req>>

LoginTimesOut ==
    /\ pc = "connect.login"
    /\ BecomesAfter("login", "timeout",
                    Done(connectCatch(GarminTimeoutError(GARMIN_LOGIN_TIMEOUT_MS)), calls))
    /\ UNCHANGED <<pureVars, svcVars, req>>

ExportAfterLoginResolves ==
    /\ pc = "connect.exportAfterLogin"
    /\ BecomesAfter("exportToken", "resolved",
                    Done(Response(200, Obj(<<Prop("ok", Bool(TRUE)),
                                             Prop("tokenJson", RefreshedToken)>>)),
                         calls))
    /\ UNCHANGED <<pureVars, svcVars, req>>

ExportAfterLoginRejects ==
    /\ pc = "connect.exportAfterLogin"
    /\ \E e \in RemoteErrors :
          BecomesAfter("exportToken", "rejected", Done(connectCatch(e), calls))
    /\ UNCHANGED <<pureVars, svcVars, req>>

\* time passes
Tick ==
    /\ \E t \in Times : t > now /\ now' = t
    /\ UNCHANGED <<pureVars, httpVars, lastPasswordLoginAttemptByUsername>>

\* the steps of one request to POST /garmin/connect
ConnectStep ==
    \/ PostGarminConnect
    \/ ConnectLoadTokenResolves
    \/ ConnectLoadTokenRejects
    \/ ConnectGetUserProfileResolves
    \/ ConnectGetUserProfileRejects
    \/ ConnectGetUserProfileTimesOut
    \/ ConnectExportTokenResolves
    \/ ConnectExportTokenRejects
    \/ LoginResolves
    \/ LoginRejects
    \/ LoginTimesOut
    \/ ExportAfterLoginResolves
    \/ ExportAfterLoginRejects

InitConnect ==
    /\ fn = "none"
    /\ input = Pending
    /\ output = Pending
    /\ pc = "idle"
    /\ req = NoRequest
    /\ calls = <<>>
    /\ resp = NoRequest
    /\ frame = Frame(Undefined, <<>>)
    /\ lastPasswordLoginAttemptByUsername = EmptyMap
    /\ now = StartTime

NextConnect == ConnectStep \/ Tick

SpecConnect == InitConnect /\ [][NextConnect]_vars

-----------------------------------------------------------------------------
(* Claims about the password-login cooldown *)

\* how the awaited calls of the request have settled
Settled == frame.settled

\* the calls of the cooldown gate among cs
GateCalls(cs) == SelectSeq(cs, LAMBDA c : c.fn = "canAttemptPasswordLogin")

\* this step takes a request to the password path, as it arrives or after its
\* token path has failed: the gate is consulted (the clock stands still in a step
\* of the handler)
GateReached ==
    /\ GateCalls(calls') # <<>>
    /\ now' = now
    /\ pc \in {"idle", "done"} \/ GateCalls(calls) = <<>>

\* less than ten minutes have passed since username was marked
CooldownActive(username) ==
    /\ username \in DOMAIN lastPasswordLoginAttemptByUsername
    /\ now - lastPasswordLoginAttemptByUsername[username] < 600000

\* this step asks for the password login of the request: login() is called
LoginCalled ==
    /\ pc' = "connect.login"
    /\ calls'[Len(calls')] = Call("login", Undefined)

\* this step refuses the password login: 429, and login() is not called
LoginRefused ==
    /\ pc' = "done"
    /\ resp'.status = 429
    /\ \A i \in 1..Len(calls') : calls'[i].fn # "login"

\* C11: while the cooldown of a username is active (less than 10 minutes since it
\* was marked) a request that reaches the password path for it is answered 429 and
\* login() is not called; the cooldown of one username never blocks another, and a
\* username that was never marked is always allowed.
C11_CooldownGate ==
    [][GateReached =>
          /\ CooldownActive(getUsernameFromReq(req'.body).s) => LoginRefused
          /\ ~CooldownActive(getUsernameFromReq(req'.body).s) => LoginCalled
          /\ getUsernameFromReq(req'.body).s \notin DOMAIN lastPasswordLoginAttemptByUsername
                => LoginCalled]_vars

\* bob asks for a password login while only ann is in her cooldown: login() is called
C11_Witness ==
    /\ pc = "connect.login"
    /\ Username = Str("bob")
    /\ CooldownActive("ann")
    /\ "bob" \notin DOMAIN lastPasswordLoginAttemptByUsername

\* this step settles the login() of the request
LoginSettles == pc = "connect.login" /\ pc' # "connect.login"

\* how login() has settled in this step
LoginOutcome == frame'.settled[Len(frame'.settled)].outcome

\* C12: the cooldown is burned only by a successful password login: when login()
\* throws or times out the cooldown map is unchanged and the next password attempt
\* of the username is allowed at once; when login() succeeds the username is marked
\* with the current time, so that its next attempt within the window is refused; no
\* other step changes the map.
C12_OnlySuccessBurnsCooldown ==
    [][/\ (LoginSettles /\ LoginOutcome \in {"rejected", "timeout"}) =>
             /\ lastPasswordLoginAttemptByUsername' = lastPasswordLoginAttemptByUsername
             /\ ~CooldownActive(Username.s)'
       /\ (LoginSettles /\ LoginOutcome = "resolved") =>
             /\ lastPasswordLoginAttemptByUsername' =
                   [u \in DOMAIN lastPasswordLoginAttemptByUsername \cup {Username.s} |->
                       IF u = Username.s THEN now
                       ELSE lastPasswordLoginAttemptByUsername[u]]
             /\ CooldownActive(Username.s)'
       /\ lastPasswordLoginAttemptByUsername' # lastPasswordLoginAttemptByUsername
             => LoginSettles /\ LoginOutcome = "resolved"
       /\ (GateReached /\ CooldownActive(getUsernameFromReq(req'.body).s)) =>
             resp'.status = 429]_vars

\* the login() of ann has been rejected after bob was marked: ann is not marked
C12_Witness ==
    /\ pc = "done"
    /\ resp.status = 500
    /\ Settled # <<>>
    /\ Settled[Len(Settled)] = Settle("login", "rejected")
    /\ Username = Str("ann")
    /\ "ann" \notin DOMAIN lastPasswordLoginAttemptByUsername
    /\ "bob" \in DOMAIN lastPasswordLoginAttemptByUsername

-----------------------------------------------------------------------------
(* Claims about the token-first path of POST /garmin/connect *)

TokenPathPositions == {"connect.loadToken", "connect.getUserProfile", "connect.exportToken"}

\* the token was loaded and getUserProfile has validated it
TokenValidated ==
    /\ HandlerRan
    /\ Len(Settled) >= 2
    /\ Settled[1] = Settle("loadToken", "resolved")
    /\ Settled[2] = Settle("getUserProfile", "resolved")

\* the exportToken of the token path has not failed
TokenExported == Len(Settled) >= 3 => Settled[3] = Settle("exportToken", "resolved")

\* a call of the token path was rejected (before any login)
TokenPathFailed ==
    /\ HandlerRan
    /\ \E k \in 1..Len(Settled) :
          /\ Settled[k].outcome = "rejected"
          /\ \A j \in 1..k : Settled[j].fn # "login"

\* the request is answered 200 with the exported token
AnsweredWithToken ==
    /\ resp.status = 200
    /\ GetProp(resp.body, "tokenJson") = RefreshedToken

\* the password path was taken after the token path: the gate was consulted after
\* loadToken was called, and login() was called next unless the gate refused
FellBackToPassword ==
    /\ \E i, j \in 1..Len(calls) :
          i < j /\ calls[i].fn = "loadToken" /\ calls[j].fn = "canAttemptPasswordLogin"
    /\ \/ pc = "done" /\ resp.status = 429 /\ "login" \notin Invoked
       \/ \E j \in 1..(Len(calls) - 1) :
             calls[j].fn = "canAttemptPasswordLogin" /\ calls[j + 1].fn = "login"

\* C13 as stated: if tokenJson is supplied and loading it and the getUserProfile
\* validation succeed, the response is 200 with the exported token, login() is never
\* called and the cooldown map is unchanged; if the token path fails with an error
\* other than a timeout, the handler falls back to the password path.
C13_TokenFirst ==
    [][/\ TokenValidated' =>
             /\ "login" \notin Invoked'
             /\ "markPasswordLoginAttempt" \notin Invoked'
             /\ pc' \in {"connect.exportToken", "done"}
             /\ pc' = "done" => AnsweredWithToken'
       /\ pc \in TokenPathPositions =>
             lastPasswordLoginAttemptByUsername' = lastPasswordLoginAttemptByUsername
       /\ TokenPathFailed' => FellBackToPassword']_vars

\* C13 amended: the same, when exportToken succeeds too: a validated token whose
\* export does not fail is answered 200 with the exported token, without login()
\* and without a change of the cooldown map; a failure of loadToken, getUserProfile
\* or exportToken other than a timeout leads to the password path.
C13_TokenFirstWhenExported ==
    [][/\ (TokenValidated' /\ TokenExported') =>
             /\ "login" \notin Invoked'
             /\ "markPasswordLoginAttempt" \notin Invoked'
             /\ pc' \in {"connect.exportToken", "done"}
             /\ pc' = "done" => AnsweredWithToken'
       /\ pc \in TokenPathPositions =>
             lastPasswordLoginAttemptByUsername' = lastPasswordLoginAttemptByUsername
       /\ TokenPathFailed' => FellBackToPassword']_vars

\* ann, in her cooldown, connects with a valid token: 200 and no login()
C13_Witness ==
    /\ TokenValidated
    /\ pc = "done"
    /\ AnsweredWithToken
    /\ CooldownActive(Username.s)
    /\ "login" \notin Invoked

\* C14: a timeout of the token validation does not fall back to password login:
\* the response is 504, login() is never called and the cooldown map is unchanged;
\* a timeout of login() itself is answered 504 too.
C14_TimeoutNoFallback ==
    [][/\ (HandlerRan' /\ \E k \in 1..Len(Settled') : Settled'[k].outcome = "timeout") =>
             /\ pc' = "done"
             /\ resp'.status = 504
             /\ lastPasswordLoginAttemptByUsername' = lastPasswordLoginAttemptByUsername
       /\ (HandlerRan' /\ Settle("getUserProfile", "timeout") \in Range(Settled')) =>
             /\ "login" \notin Invoked'
             /\ "canAttemptPasswordLogin" \notin Invoked'
       /\ (HandlerRan' /\ Settle("login", "timeout") \in Range(Settled')) =>
             resp'.status = 504]_vars

\* the validation of a token has timed out: 504, no login()
C14_Witness ==
    /\ HandlerRan
    /\ Settled = <<Settle("loadToken", "resolved"), Settle("getUserProfile", "timeout")>>
    /\ pc = "done"
    /\ resp.status = 504
    /\ "login" \notin Invoked

-----------------------------------------------------------------------------
(* The token-only data routes *)

SUMMARY_FIELDS ==
    <<"activityId", "activityName", "activityType", "sportTypeId", "startTimeLocal",
      "duration", "distance", "calories", "averageHR", "maxHR", "elevationGain", "steps">>

COACHING_FIELDS ==
    <<"activityId", "activityName", "description", "activityType", "sportTypeId",
      "startTimeLocal", "startTimeGMT", "beginTimestamp", "locationName", "duration",
      "movingDuration", "elapsedDuration", "distance", "averageSpeed", "averageMovingSpeed",
      "maxSpeed", "elevationGain", "elevationLoss", "minElevation", "maxElevation",
      "averageHR", "maxHR", "calories", "averageRunningCadenceInStepsPerMinute",
      "averageRunCadence", "maxRunningCadenceInStepsPerMinute", "maxRunCadence",
      "avgStrideLength", "strideLength", "steps", "averageBikingCadenceInRevPerMinute",
      "maxBikingCadenceInRevPerMinute", "averageSwimCadenceInStrokesPerMinute", "averageSwolf",
      "activeLengths", "avgPower", "maxPower", "normPower", "vO2MaxValue",
      "aerobicTrainingEffect", "trainingEffect", "anaerobicTrainingEffect",
      "trainingEffectLabel", "activityTrainingLoad", "avgStress", "startStress", "endStress",
      "differenceStress", "avgRespirationRate", "totalSets", "activeSets", "totalReps",
      "lapCount", "splitSummaries", "hasSplits", "pr", "manualActivity">>

SPLIT_SUMMARY_FIELDS ==
    <<"lapIndex", "distance", "duration", "movingDuration", "averageSpeed", "maxSpeed",
      "elevationGain", "elevationLoss", "averageHR", "maxHR", "calories", "startTimeGMT",
      "intensityType">>

SPLIT_COACHING_FIELDS ==
    <<"lapIndex", "distance", "duration", "movingDuration", "elapsedDuration", "startTimeGMT",
      "intensityType", "messageIndex", "averageSpeed", "averageMovingSpeed", "maxSpeed",
      "avgGradeAdjustedSpeed", "elevationGain", "elevationLoss", "maxElevation",
      "minElevation", "averageHR", "maxHR", "calories", "bmrCalories", "averageRunCadence",
      "maxRunCadence", "groundContactTime", "strideLength", "verticalOscillation",
      "verticalRatio", "averagePower", "maxPower", "minPower", "normalizedPower", "totalWork">>

PROFILE_FIELDS ==
    Obj(<<Prop("summary", Arr(SUMMARY_FIELDS)), Prop("coaching", Arr(COACHING_FIELDS))>>)

SPLIT_PROFILE_FIELDS ==
    Obj(<<Prop("summary", Arr(SPLIT_SUMMARY_FIELDS)),
          Prop("coaching", Arr(SPLIT_COACHING_FIELDS))>>)

VALID_PROFILES == {"summary", "coaching", "full"}

\* typeof v
TypeOf(v) ==
    CASE v.t \in {"object", "array", "null"} -> "object"
      [] v.t = "NaN" -> "number"
      [] OTHER -> v.t

\* String(v)
StringOf(v) == IF v.t = "boolean" THEN (IF v.b THEN "true" ELSE "false") ELSE TemplateString(v)

\* Number(v)
ToNumber(v) ==
    CASE v.t \in {"number", "NaN"} -> v
      [] v.t = "string" -> StringToNumber(v.s)
      [] v.t = "boolean" -> IF v.b THEN Num(1) ELSE Num(0)
      [] v.t = "null" -> Num(0)
      [] OTHER -> NaN

NumMax(a, b) == IF NumLess(a, b) THEN b ELSE a
NumMin(a, b) == IF NumLess(a, b) THEN a ELSE b

\* { ok, activityId, activityIdRaw, activityIdRawType }
parseActivityIdFromBody(body) ==
    LET raw == Coalesce(Coalesce(Coalesce(Coalesce(OptGet(body, "activityId"),
                                                   OptGet(body, "activityID")),
                                          OptGet(body, "activity_id")),
                                 OptGet(body, "id")),
                        Null)
        parsed == IF TypeOf(raw) = "number" THEN raw
                  ELSE StringToNumber(StringOf(Coalesce(raw, Str(""))))
        ok == NumberIsFinite(parsed) /\ NumLess(Num(0), parsed)
    IN  [ok |-> ok,
         activityId |-> IF ok THEN parsed ELSE Null,
         activityIdRaw |-> raw,
         activityIdRawType |-> TypeOf(raw)]

\* parsed.activityIdRaw !== null && parsed.activityIdRaw !== undefined
rawProvided(parsed) == parsed.activityIdRaw # Null /\ parsed.activityIdRaw # Undefined

\* req.body?.profile || "full"
profileOf(body) == OrElse(OptGet(body, "profile"), Str("full"))

\* the 400 of a profile that VALID_PROFILES does not hold
invalidProfile(profile) ==
    Response(400, Failure("Invalid profile \"" \o StringOf(profile)
                          \o "\". Must be one of: summary, coaching, full"))

\* the 400 of an activityId that was provided and is not valid
invalidActivityId(parsed) ==
    Response(400, Obj(<<Prop("ok", Bool(FALSE)), Prop("error", Str("Invalid activityId")),
                        Prop("receivedActivityIdRaw", parsed.activityIdRaw),
                        Prop("receivedType", Str(parsed.activityIdRawType))>>))

\* Math.max(1, Math.min(n0, 50)) of Number(req.body?.limit ?? 10), else 10
limitOf(body) ==
    LET n0 == ToNumber(Coalesce(OptGet(body, "limit"), Num(10)))
    IN  IF NumberIsFinite(n0) THEN NumMax(Num(1), NumMin(n0, Num(50))) ELSE Num(10)

\* Math.max(0, o0) of Number(req.body?.offset ?? 0), else 0
offsetOf(body) ==
    LET o0 == ToNumber(Coalesce(OptGet(body, "offset"), Num(0)))
    IN  IF NumberIsFinite(o0) THEN NumMax(Num(0), o0) ELSE Num(0)

ActivityServiceBase == "https://connectapi.garmin.com/activity-service/activity"

\* `${base}/${activityId}/splits`
splitsUrl(activityId) == ActivityServiceBase \o "/" \o TemplateString(activityId) \o "/splits"

\* the urls /debug/garmin-splits probes, in order
probeUrls(id) ==
    <<ActivityServiceBase \o "/" \o TemplateString(id) \o "/splits",
      ActivityServiceBase \o "/" \o TemplateString(id) \o "/details",
      ActivityServiceBase \o "/" \o TemplateString(id) \o "/laps">>

\* the TypeError of `key in v` for a v that is no object
InOperatorError(key, v) ==
    Error("Cannot use 'in' operator to search for '" \o key \o "' in " \o StringOf(v))

\* the TypeError of reading property key of undefined
ReadOfUndefined(key) ==
    Error("Cannot read properties of undefined (reading '" \o key \o "')")

\* the state of a request in withGarminToken: result is the value of the action
\* so far, settled how the awaited calls have settled, recent and activityId the
\* locals of the action, caught the error the catch block caught, exported what
\* exportToken resolved with
DataFrame(result, settled, recent, activityId, caught, exported) ==
    [result |-> result, settled |-> settled, recent |-> recent, activityId |-> activityId,
     caught |-> caught, exported |-> exported]

NoError == [kind |-> "none"]

NewDataFrame == DataFrame(Undefined, <<>>, Pending, Undefined, NoError, Undefined)

\* the handler waits at position with the calls made and the locals f
Waits(position, made, f) ==
    [pc |-> position, resp |-> NoRequest, calls |-> made, frame |-> f]

\* the catch block of withGarminToken answers the error e
Failed(e, made, f) ==
    [pc |-> "done", resp |-> catchResponse(e), calls |-> made,
     frame |-> [f EXCEPT !.caught = e]]

\* the action has returned result: const refreshed = await client.exportToken()
Returned(result, made, f) ==
    Waits("data.exportToken", Append(made, Call("exportToken", Undefined)),
          [f EXCEPT !.result = result])

\* the position of a data route: withGarminToken is shared with the create route
InDataRoute(next) ==
    [pc |-> IF next.pc = "done" THEN "done" ELSE "data." \o next.pc,
     resp |-> next.resp, calls |-> next.calls, frame |-> NewDataFrame]

\* the handler has answered before withGarminToken was called
Answered(response) == InDataRoute(Done(response, <<>>))

postGarminProfile(r) ==
    IF ~requireApiKey(r) THEN Answered(Response(401, Failure("Unauthorized")))
    ELSE InDataRoute(withGarminToken(r.body))

postGarminActivities(r) ==
    IF ~requireApiKey(r) THEN Answered(Response(401, Failure("Unauthorized")))
    ELSE InDataRoute(withGarminToken(r.body))

\* the checks /garmin/activity and /garmin/splits make before withGarminToken
postWithProfile(r) ==
    IF ~requireApiKey(r) THEN Answered(Response(401, Failure("Unauthorized")))
    ELSE IF ~(profileOf(r.body).t = "string" /\ profileOf(r.body).s \in VALID_PROFILES)
    THEN Answered(invalidProfile(profileOf(r.body)))
    ELSE IF rawProvided(parseActivityIdFromBody(r.body)) /\ ~parseActivityIdFromBody(r.body).ok
    THEN Answered(invalidActivityId(parseActivityIdFromBody(r.body)))
    ELSE InDataRoute(withGarminToken(r.body))

postGarminActivity(r) == postWithProfile(r)

postGarminSplits(r) == postWithProfile(r)

postGarminWorkout(r) ==
    IF ~requireApiKey(r) THEN Answered(Response(401, Failure("Unauthorized")))
    ELSE IF rawProvided(parseActivityIdFromBody(r.body)) /\ ~parseActivityIdFromBody(r.body).ok
    THEN Answered(invalidActivityId(parseActivityIdFromBody(r.body)))
    ELSE InDataRoute(withGarminToken(r.body))

postDebugGarminSplits(r) ==
    IF ~requireApiKey(r) THEN Answered(Response(401, Failure("Unauthorized")))
    ELSE IF ~parseActivityIdFromBody(r.body).ok
    THEN Answered(Response(400, Failure("Invalid activityId")))
    ELSE InDataRoute(withGarminToken(r.body))

\* the detail fetch of the route for activityId
fetchFor(path, activityId, made, f) ==
    CASE path = "/garmin/activity" ->
           Waits("data.getActivity",
                 Append(made, Call("getActivity", Obj(<<Prop("activityId", activityId)>>))),
                 [f EXCEPT !.activityId = activityId])
      [] path = "/garmin/splits" ->
           Waits("data.get", Append(made, Call("get", Str(splitsUrl(activityId)))),
                 [f EXCEPT !.activityId = activityId])
      [] path = "/garmin/workout" ->
           Waits("data.all",
                 made \o <<Call("getActivity", Obj(<<Prop("activityId", activityId)>>)),
                           Call("get", Str(splitsUrl(activityId)))>>,
                 [f EXCEPT !.activityId = activityId])

\* the action of the route of r, from its start to its first await
actionStart(r, made, f) ==
    CASE r.path = "/garmin/profile" ->
           Waits("data.getUserProfile", Append(made, Call("getUserProfile", Undefined)), f)
      [] r.path = "/garmin/activities" ->
           Waits("data.getActivities",
                 Append(made, Call("getActivities", Arr(<<offsetOf(r.body), limitOf(r.body)>>))),
                 f)
      [] r.path = "/debug/garmin-splits" ->
           Waits("data.probe",
                 Append(made,
                        Call("get", Str(probeUrls(parseActivityIdFromBody(r.body).activityId)[1]))),
                 [f EXCEPT !.activityId = parseActivityIdFromBody(r.body).activityId,
                           !.result = EmptyObj])
      [] OTHER ->
           IF ~Truthy(parseActivityIdFromBody(r.body).activityId)
           THEN Waits("data.recent",
                      Append(made, Call("getActivities", Arr(<<Num(0), Num(1)>>))), f)
           ELSE fetchFor(r.path, parseActivityIdFromBody(r.body).activityId, made, f)

\* an action fetching the detail of whatever getActivities(0, 1) resolved with
afterRecentFetchingAnyway(r, recent, made, f) ==
    IF ~Truthy(recent) \/ recent.t # "array" \/ Len(recent.a) = 0
    THEN fetchFor(r.path, Undefined, made, [f EXCEPT !.recent = recent])
    ELSE fetchFor(r.path, GetProp(recent.a[1], "activityId"), made,
                  [f EXCEPT !.recent = recent])

\* the action once getActivities(0, 1) has resolved with recent
afterRecent(r, recent, made, f) ==
    IF ~Truthy(recent) \/ (recent.t = "array" /\ Len(recent.a) = 0)
    THEN Failed(Error("No activities found"), made, [f EXCEPT !.recent = recent])
    ELSE IF recent.t # "array" \/ recent.a[1].t \in {"undefined", "null"}
    THEN Failed(ReadOfUndefined("activityId"), made, [f EXCEPT !.recent = recent])
    ELSE fetchFor(r.path, GetProp(recent.a[1], "activityId"), made,
                  [f EXCEPT !.recent = recent])

\* { activity, profile } of /garmin/activity, or the error thrown
activityResult(raw, profile) ==
    LET flat == flattenActivityDetail(raw)
        fields == Lookup(PROFILE_FIELDS, profile)
        activity == IF Truthy(fields) THEN pickFields(flat, fields.a) ELSE flat
    IN  IF IsThrow(activity) THEN InOperatorError(fields.a[1], flat)
        ELSE Obj(<<Prop("activity", activity), Prop("profile", profile)>>)

\* laps.map((lap) => pickFields(lap, fields))
pickLaps(laps, fields) ==
    IF laps.t # "array" THEN Throw
    ELSE MapOrThrow([i \in 1..Len(laps.a) |-> pickFields(laps.a[i], fields)])

\* { activityId, laps, lapCount, profile } of /garmin/splits, or the error thrown
splitsResult(raw, activityId, profile) ==
    LET lapDTOs == OrElse(OptGet(raw, "lapDTOs"), Arr(<<>>))
        fields == Lookup(SPLIT_PROFILE_FIELDS, profile)
        laps == IF Truthy(fields) THEN pickLaps(lapDTOs, fields.a) ELSE lapDTOs
    IN  IF IsThrow(laps)
        THEN (IF lapDTOs.t # "array" THEN Error("laps.map is not a function")
              ELSE InOperatorError(fields.a[1],
                                   lapDTOs.a[CHOOSE i \in 1..Len(lapDTOs.a) :
                                                 ~IsObjectLike(lapDTOs.a[i])]))
        ELSE Obj(<<Prop("activityId", Coalesce(OptGet(raw, "activityId"), activityId)),
                   Prop("laps", laps),
                   Prop("lapCount", IF laps.t = "array" THEN Num(Len(laps.a)) ELSE Undefined),
                   Prop("profile", profile)>>)

\* { activityId, workout } of /garmin/workout, or the error thrown
workoutResult(rawActivity, rawSplits, activityId) ==
    LET flat == flattenActivityDetail(rawActivity)
        laps == OrElse(OptGet(rawSplits, "lapDTOs"), Arr(<<>>))
        workout == buildWorkoutResponse(flat, laps)
    IN  IF IsThrow(workout)
        THEN (IF ~IsObjectLike(flat) THEN InOperatorError(WORKOUT_IDENTITY_FIELDS[1], flat)
              ELSE Error("Cannot use 'in' operator to search for '"
                         \o WORKOUT_LAP_FIELDS[1] \o "'"))
        ELSE Obj(<<Prop("activityId", activityId), Prop("workout", workout)>>)

\* the action goes on with its value, or the catch block answers what it threw
ReturnedOrThrown(value, made, f) ==
    IF "kind" \in DOMAIN value THEN Failed(value, made, f) ELSE Returned(value, made, f)

-----------------------------------------------------------------------------
(* Requests to the data routes, one after another *)

DataProfiles == {Undefined, Str("summary"), Str("coaching"), Str("bogus")}

\* how a body names the activity
ActivityIdFields ==
    {EmptyObj,
     Obj(<<Prop("activityId", Num(42))>>),
     Obj(<<Prop("activityId", Str(" 42 "))>>),
     Obj(<<Prop("activityId", Str("abc"))>>),
     Obj(<<Prop("activityId", Str(""))>>),
     Obj(<<Prop("activityId", Num(0))>>),
     Obj(<<Prop("activityId", Bool(TRUE))>>),
     Obj(<<Prop("activityId", Null), Prop("id", Num(9))>>),
     Obj(<<Prop("activityID", Num(12))>>)}

Paging ==
    {Obj(<<Prop("limit", Num(100))>>), Obj(<<Prop("limit", Str("x")), Prop("offset", Num(-5))>>),
     Obj(<<Prop("limit", Num(0)), Prop("offset", Str("20"))>>)}

DataBodies ==
    {Undefined}
    \cup {WithOptional(who, "tokenJson", t) :
             who \in {EmptyObj, Obj(<<Prop("email", Str("ann"))>>)}, t \in TokenValues}
    \cup {WithOptional(Spread(Obj(<<Prop("username", Str("ann")), Prop("tokenJson", FullToken)>>),
                              a), "profile", p) :
             a \in ActivityIdFields \cup Paging, p \in DataProfiles}
    \cup {Obj(<<Prop("activityId", Num(42))>>), Obj(<<Prop("activityId", Str("abc"))>>)}

DataRequests(path) ==
    RequestsTo(Route("POST", path), DataBodies,
               {Undefined,
                Obj(<<Prop("username", Str("ann")), Prop("tokenJson", FullToken),
                      Prop("activityId", Num(42))>>)})

\* what the awaited calls of the data routes can resolve with
UserProfiles == {Obj(<<Prop("displayName", Str("ann"))>>)}

ActivityLists ==
    {Arr(<<>>),
     Arr(<<Obj(<<Prop("activityId", Num(77)), Prop("activityName", Str("Morning Run"))>>)>>)}

RecentLists == ActivityLists \cup {Undefined, Arr(<<EmptyObj>>)}

ActivityDetails ==
    {Undefined,
     Obj(<<Prop("activityId", Num(42)), Prop("activityName", Str("Morning Run")),
           Prop("summaryDTO", Obj(<<Prop("distance", Num(5000))>>)),
           Prop("metadataDTO", Obj(<<Prop("lapCount", Num(1))>>))>>)}

SplitsValues ==
    {Undefined,
     Obj(<<Prop("activityId", Num(42)),
           Prop("lapDTOs", Arr(<<Obj(<<Prop("lapIndex", Num(1)), Prop("distance", Num(1000)),
                                       Prop("minPower", Num(3))>>)>>))>>),
     Obj(<<Prop("lapDTOs", Arr(<<Null>>))>>)}

\* what the get of a probed url can resolve with
ProbeValues == {Obj(<<Prop("lapDTOs", Arr(<<>>))>>)}

\* what exportToken can resolve with: the tokens loaded, or refreshed ones
ExportedTokens == {FullToken, RefreshedToken}

\* the handler moves to next, its locals included
DataBecomes(next) ==
    /\ Becomes(next)
    /\ frame' = next.frame

\* the locals once the awaited call name has settled
Settling(name, outcome) == [frame EXCEPT !.settled = Append(@, Settle(name, outcome))]

\* how a call that failed with e has settled
OutcomeOf(e) == IF e.kind = "GarminTimeoutError" THEN "timeout" ELSE "rejected"

\* the request r arrives and its handler runs to next
Receives(r, next) ==
    /\ req' = r
    /\ DataBecomes(next)

PostGarminProfile ==
    /\ pc = "idle"
    /\ \E r \in DataRequests("/garmin/profile") : Receives(r, postGarminProfile(r))
    /\ UNCHANGED <<pureVars, svcVars>>

PostGarminActivities ==
    /\ pc = "idle"
    /\ \E r \in DataRequests("/garmin/activities") : Receives(r, postGarminActivities(r))
    /\ UNCHANGED <<pureVars, svcVars>>

PostGarminActivity ==
    /\ pc = "idle"
    /\ \E r \in DataRequests("/garmin/activity") : Receives(r, postGarminActivity(r))
    /\ UNCHANGED <<pureVars, svcVars>>

PostGarminSplits ==
    /\ pc = "idle"
    /\ \E r \in DataRequests("/garmin/splits") : Receives(r, postGarminSplits(r))
    /\ UNCHANGED <<pureVars, svcVars>>

PostGarminWorkout ==
    /\ pc = "idle"
    /\ \E r \in DataRequests("/garmin/workout") : Receives(r, postGarminWorkout(r))
    /\ UNCHANGED <<pureVars, svcVars>>

PostDebugGarminSplits ==
    /\ pc = "idle"
    /\ \E r \in DataRequests("/debug/garmin-splits") : Receives(r, postDebugGarminSplits(r))
    /\ UNCHANGED <<pureVars, svcVars>>

\* client.loadToken resolves: the action of the route starts
DataLoadTokenResolves ==
    /\ pc = "data.loadToken"
    /\ DataBecomes(actionStart(req, calls, Settling("loadToken", "resolved")))
    /\ UNCHANGED <<pureVars, svcVars, req>>

DataLoadTokenRejects ==
    /\ pc = "data.loadToken"
    /\ \E e \in RemoteErrors : DataBecomes(Failed(e, calls, Settling("loadToken", "rejected")))
    /\ UNCHANGED <<pureVars, svcVars, req>>

\* an awaited call under withTimeout has rejected with e, or its timer has fired
\* first: the catch block of withGarminToken answers
CaughtFrom(name, e) == DataBecomes(Failed(e, calls, Settling(name, OutcomeOf(e))))

GetUserProfileResolves ==
    /\ pc = "data.getUserProfile"
    /\ \E profile \in UserProfiles :
          DataBecomes(Returned(Obj(<<Prop("profile", profile)>>), calls,
                               Settling("getUserProfile", "resolved")))
    /\ UNCHANGED <<pureVars, svcVars, req>>

GetUserProfileFails ==
    /\ pc = "data.getUserProfile"
    /\ \E e \in RemoteErrors \cup {TimeoutError} : CaughtFrom("getUserProfile", e)
    /\ UNCHANGED <<pureVars, svcVars, req>>

GetActivitiesResolves ==
    /\ pc = "data.getActivities"
    /\ \E activities \in ActivityLists :
          DataBecomes(Returned(Obj(<<Prop("activities", activities)>>), calls,
                               Settling("getActivities", "resolved")))
    /\ UNCHANGED <<pureVars, svcVars, req>>

GetActivitiesFails ==
    /\ pc = "data.getActivities"
    /\ \E e \in RemoteErrors \cup {TimeoutError} : CaughtFrom("getActivities", e)
    /\ UNCHANGED <<pureVars, svcVars, req>>

\* getActivities(0, 1) resolves: the most recent activity is the one to fetch
RecentResolves ==
    /\ pc = "data.recent"
    /\ \E recent \in RecentLists :
          DataBecomes(afterRecent(req, recent, calls, Settling("getActivities", "resolved")))
    /\ UNCHANGED <<pureVars, svcVars, req>>

RecentFails ==
    /\ pc = "data.recent"
    /\ \E e \in RemoteErrors \cup {TimeoutError} : CaughtFrom("getActivities", e)
    /\ UNCHANGED <<pureVars, svcVars, req>>

GetActivityResolves ==
    /\ pc = "data.getActivity"
    /\ \E raw \in ActivityDetails :
          DataBecomes(ReturnedOrThrown(activityResult(raw, profileOf(req.body)), calls,
                                       Settling("getActivity", "resolved")))
    /\ UNCHANGED <<pureVars, svcVars, req>>

GetActivityFails ==
    /\ pc = "data.getActivity"
    /\ \E e \in RemoteErrors \cup {TimeoutError} : CaughtFrom("getActivity", e)
    /\ UNCHANGED <<pureVars, svcVars, req>>

GetSplitsResolves ==
    /\ pc = "data.get"
    /\ \E raw \in SplitsValues :
          DataBecomes(ReturnedOrThrown(splitsResult(raw, frame.activityId, profileOf(req.body)),
                                       calls, Settling("get", "resolved")))
    /\ UNCHANGED <<pureVars, svcVars, req>>

GetSplitsFails ==
    /\ pc = "data.get"
    /\ \E e \in RemoteErrors \cup {TimeoutError} : CaughtFrom("get", e)
    /\ UNCHANGED <<pureVars, svcVars, req>>

\* both promises of Promise.all have resolved
ParallelFetchResolves ==
    /\ pc = "data.all"
    /\ \E rawActivity \in ActivityDetails, rawSplits \in SplitsValues :
          DataBecomes(ReturnedOrThrown(workoutResult(rawActivity, rawSplits, frame.activityId),
                                       calls, Settling("all", "resolved")))
    /\ UNCHANGED <<pureVars, svcVars, req>>

\* one of the two has rejected or timed out first: Promise.all rejects with it
ParallelFetchFails ==
    /\ pc = "data.all"
    /\ \E e \in RemoteErrors \cup {TimeoutError} : CaughtFrom("all", e)
    /\ UNCHANGED <<pureVars, svcVars, req>>

\* the probe once the get of its next url has settled with entry
afterProbe(entry, f) ==
    LET urls == probeUrls(f.activityId)
        results == SetProp(f.result, urls[Len(f.result.o) + 1], entry)
    IN  IF Len(results.o) = Len(urls)
        THEN Returned(Obj(<<Prop("results", results)>>), calls, f)
        ELSE Waits("data.probe", Append(calls, Call("get", Str(urls[Len(results.o) + 1]))),
                   [f EXCEPT !.result = results])

\* results[url] = { ok: true, data }
ProbeResolves ==
    /\ pc = "data.probe"
    /\ \E data \in ProbeValues :
          DataBecomes(afterProbe(Obj(<<Prop("ok", Bool(TRUE)), Prop("data", data)>>),
                                 Settling("get", "resolved")))
    /\ UNCHANGED <<pureVars, svcVars, req>>

\* the try around each probe catches: results[url] = { ok: false, error }
ProbeFails ==
    /\ pc = "data.probe"
    /\ \E e \in RemoteErrors \cup {TimeoutError} :
          DataBecomes(afterProbe(Obj(<<Prop("ok", Bool(FALSE)), Prop("error", Str(e.message))>>),
                                 Settling("get", OutcomeOf(e))))
    /\ UNCHANGED <<pureVars, svcVars, req>>

\* a handler answering with the token the request brought
DataExportTokenResolvesEchoingRequest ==
    /\ pc = "data.exportToken"
    /\ \E refreshed \in ExportedTokens :
          DataBecomes(
              [pc |-> "done",
               resp |-> Response(200, SetProp(Spread(Obj(<<Prop("ok", Bool(TRUE))>>), frame.result),
                                              "tokenJson", GetProp(req.body, "tokenJson"))),
               calls |-> calls,
               frame |-> [Settling("exportToken", "resolved") EXCEPT !.exported = refreshed]])
    /\ UNCHANGED <<pureVars, svcVars, req>>

\* exportToken resolves: res.json({ ok: true, ...result, tokenJson: refreshed })
DataExportTokenResolves ==
    /\ pc = "data.exportToken"
    /\ \E refreshed \in ExportedTokens :
          DataBecomes(
              [pc |-> "done",
               resp |-> Response(200, SetProp(Spread(Obj(<<Prop("ok", Bool(TRUE))>>), frame.result),
                                              "tokenJson", refreshed)),
               calls |-> calls,
               frame |-> [Settling("exportToken", "resolved") EXCEPT !.exported = refreshed]])
    /\ UNCHANGED <<pureVars, svcVars, req>>

DataExportTokenRejects ==
    /\ pc = "data.exportToken"
    /\ \E e \in RemoteErrors : DataBecomes(Failed(e, calls, Settling("exportToken", "rejected")))
    /\ UNCHANGED <<pureVars, svcVars, req>>

InitData ==
    /\ fn = "none"
    /\ input = Pending
    /\ output = Pending
    /\ pc = "idle"
    /\ req = NoRequest
    /\ calls = <<>>
    /\ resp = NoRequest
    /\ frame = NewDataFrame
    /\ lastPasswordLoginAttemptByUsername = EmptyMap
    /\ now = StartTime

NextData ==
    \/ PostGarminProfile
    \/ PostGarminActivities
    \/ PostGarminActivity
    \/ PostGarminSplits
    \/ PostGarminWorkout
    \/ PostDebugGarminSplits
    \/ DataLoadTokenResolves
    \/ DataLoadTokenRejects
    \/ GetUserProfileResolves
    \/ GetUserProfileFails
    \/ GetActivitiesResolves
    \/ GetActivitiesFails
    \/ RecentResolves
    \/ RecentFails
    \/ GetActivityResolves
    \/ GetActivityFails
    \/ GetSplitsResolves
    \/ GetSplitsFails
    \/ ParallelFetchResolves
    \/ ParallelFetchFails
    \/ ProbeResolves
    \/ ProbeFails
    \/ DataExportTokenResolves
    \/ DataExportTokenRejects

SpecData == InitData /\ [][NextData]_vars

-----------------------------------------------------------------------------
(* Claims about the token-only data routes *)

\* the request has passed requireApiKey and the checks its route makes before it
\* calls withGarminToken
HandledByWithGarminToken ==
    /\ HandlerRan
    /\ req.path \in {"/garmin/activity", "/garmin/splits"} =>
          /\ profileOf(req.body) \in {Str("summary"), Str("coaching"), Str("full")}
          /\ ~(rawProvided(parseActivityIdFromBody(req.body))
               /\ ~parseActivityIdFromBody(req.body).ok)
    /\ req.path = "/garmin/workout" =>
          ~(rawProvided(parseActivityIdFromBody(req.body))
            /\ ~parseActivityIdFromBody(req.body).ok)
    /\ req.path = "/debug/garmin-splits" => parseActivityIdFromBody(req.body).ok

\* username is missing, or tokenJson lacks oauth1 or oauth2
MissingInputs ==
    \/ getUsernameFromReq(req.body) = Str("")
    \/ ~Truthy(OptGet(OptGet(req.body, "tokenJson"), "oauth1"))
    \/ ~Truthy(OptGet(OptGet(req.body, "tokenJson"), "oauth2"))

\* the action and exportToken have succeeded
ActionAndExportSucceeded ==
    /\ frame.caught = NoError
    /\ Settled # <<>>
    /\ Settled[Len(Settled)] = Settle("exportToken", "resolved")

\* C15: a request handled by withGarminToken gets one response: 400, with no client
\* created and no Garmin call made, when username is missing or tokenJson lacks
\* oauth1 or oauth2; otherwise 200 when the action and exportToken succeed, 504
\* when the failure is a GarminTimeoutError (tested before the message), 401 when
\* the failure message matches token/unauthorized/auth/expired/session/403/401,
\* and 500 "Garmin request failed" for every other failure.
C15_ResponseTable ==
    /\ (HandledByWithGarminToken /\ MissingInputs) =>
          /\ pc = "done"
          /\ resp.status = 400
          /\ calls = <<>>
    /\ (HandledByWithGarminToken /\ ~MissingInputs) =>
          /\ pc = "done" <=> resp # NoRequest
          /\ pc = "done" => ActionAndExportSucceeded \/ frame.caught # NoError
          /\ (pc = "done" /\ ActionAndExportSucceeded) => resp.status = 200
          /\ frame.caught # NoError =>
                /\ pc = "done"
                /\ resp.status =
                      IF frame.caught.kind = "GarminTimeoutError" THEN 504
                      ELSE IF isTokenError(frame.caught.message) THEN 401
                      ELSE 500
                /\ resp.status = 500 => resp.body = Failure("Garmin request failed")

\* the fetch of /garmin/workout has timed out: 504
C15_Witness ==
    /\ HandledByWithGarminToken
    /\ req.path = "/garmin/workout"
    /\ pc = "done"
    /\ frame.caught = TimeoutError
    /\ resp.status = 504

ActivityRoutes == {"/garmin/activity", "/garmin/splits", "/garmin/workout"}

IsDetailFetch(c) == c.fn \in {"getActivity", "get"}

\* the activity a detail fetch asks for
FetchesActivity(c, activityId) ==
    \/ c = Call("getActivity", Obj(<<Prop("activityId", activityId)>>))
    \/ c = Call("get", Str("https://connectapi.garmin.com/activity-service/activity/"
                           \o StringOf(activityId) \o "/splits"))

MostRecentCall == Call("getActivities", Arr(<<Num(0), Num(1)>>))

\* C18: in /garmin/activity, /garmin/splits and /garmin/workout, with a valid
\* activityId getActivities is never called and the fetch asks for that id; with
\* none supplied, getActivities(0, 1) is called once, before any detail fetch, the
\* fetch asks for the id of the first activity returned, and an empty list ends the
\* request with an error response and no detail fetch; with an activityId that is
\* supplied but invalid, the request ends with 400 before any Garmin call.
C18_ActivityResolution ==
    (HandlerRan /\ req.path \in ActivityRoutes) =>
        /\ parseActivityIdFromBody(req.body).ok =>
              /\ "getActivities" \notin Invoked
              /\ \A i \in 1..Len(calls) :
                    IsDetailFetch(calls[i]) =>
                        FetchesActivity(calls[i], parseActivityIdFromBody(req.body).activityId)
        /\ ~rawProvided(parseActivityIdFromBody(req.body)) =>
              /\ Len(SelectSeq(calls, LAMBDA c : c.fn = "getActivities")) <= 1
              /\ \A i \in 1..Len(calls) :
                    IsDetailFetch(calls[i]) =>
                        /\ \E j \in 1..(i - 1) : calls[j] = MostRecentCall
                        /\ frame.recent.t = "array"
                        /\ Len(frame.recent.a) > 0
                        /\ FetchesActivity(calls[i], GetProp(frame.recent.a[1], "activityId"))
              /\ pc \in {"data.getActivity", "data.get", "data.all"} =>
                    \E i \in 1..Len(calls) : IsDetailFetch(calls[i])
              /\ frame.recent = Arr(<<>>) =>
                    /\ pc = "done"
                    /\ resp.status = 500
                    /\ GetProp(resp.body, "ok") = Bool(FALSE)
                    /\ \A i \in 1..Len(calls) : ~IsDetailFetch(calls[i])
        /\ (rawProvided(parseActivityIdFromBody(req.body))
            /\ ~parseActivityIdFromBody(req.body).ok) =>
              /\ pc = "done"
              /\ resp.status = 400
              /\ calls = <<>>

\* /garmin/workout without an activityId: the most recent activity, 77, is fetched
C18_Witness ==
    /\ HandlerRan
    /\ req.path = "/garmin/workout"
    /\ ~rawProvided(parseActivityIdFromBody(req.body))
    /\ pc = "done"
    /\ resp.status = 200
    /\ GetProp(resp.body, "activityId") = Num(77)
    /\ \E i \in 1..Len(calls) : calls[i] = MostRecentCall

-----------------------------------------------------------------------------
(* The health and debug routes, and the service as a whole *)

\* Object.keys(v) of an object
ObjectKeys(v) == Arr([i \in 1..Len(v.o) |-> Str(v.o[i].k)])

\* s.slice(0, n)
Prefix(s, n) == SubSeq(s, 1, IF Len(s) < n THEN Len(s) ELSE n)

getHealth(r) == Answered(Response(200, Obj(<<Prop("ok", Bool(TRUE))>>)))

getDebugAuth(r) ==
    IF ~requireApiKey(r) THEN Answered(Response(401, Failure("Unauthorized")))
    ELSE LET auth == OrElse(r.authorization, Str("")).s
         IN  Answered(Response(200,
                 Obj(<<Prop("hasEnvApiKey", Bool(Truthy(r.apiKey))),
                       Prop("envApiKeyLength",
                            IF r.apiKey.t = "string" THEN Num(Len(r.apiKey.s)) ELSE Num(0)),
                       Prop("gotAuthHeader", Bool(auth # "")),
                       Prop("authPrefix", Str(Prefix(auth, 7))),
                       Prop("gotTokenLength", Num(Len(bearerToken(auth)))),
                       Prop("tokenFirst8", Str(Prefix(bearerToken(auth), 8)))>>)))

\* the request carries no content-type header: contentType is null
postDebugBody(r) ==
    IF ~requireApiKey(r) THEN Answered(Response(401, Failure("Unauthorized")))
    ELSE Answered(Response(200,
             Obj(<<Prop("contentType", Null),
                   Prop("body", r.body),
                   Prop("keys", IF Truthy(r.body) THEN ObjectKeys(r.body) ELSE Null)>>)))

allDebugRoute(r) ==
    IF ~requireApiKey(r) THEN Answered(Response(401, Failure("Unauthorized")))
    ELSE Answered(Response(200,
             Obj(<<Prop("ok", Bool(TRUE)),
                   Prop("method", Str(r.method)),
                   Prop("path", Str(r.path)),
                   Prop("originalUrl", Str(r.path)),
                   Prop("contentType", Null),
                   Prop("hasBody", Bool(Truthy(r.body) /\ Len(r.body.o) > 0)),
                   Prop("bodyKeys", IF Truthy(r.body) THEN ObjectKeys(r.body) ELSE Arr(<<>>))>>)))

\* the names of the methods are those of the library's prototype, not listed here
getDebugGarminMethods(r) ==
    IF ~requireApiKey(r) THEN Answered(Response(401, Failure("Unauthorized")))
    ELSE Answered(Response(200,
             Obj(<<Prop("ok", Bool(TRUE)),
                   Prop("typeofGarminConnect", Str("function")),
                   Prop("hasPrototype", Bool(TRUE))>>)))

getDebugGarminExports(r) ==
    IF ~requireApiKey(r) THEN Answered(Response(401, Failure("Unauthorized")))
    ELSE Answered(Response(200,
             Obj(<<Prop("ok", Bool(TRUE)),
                   Prop("typeofPkg", Str("object")),
                   Prop("mention", Str("GarminConnect should be one of the keys above."))>>)))

postDebugActivityId(r) ==
    IF ~requireApiKey(r) THEN Answered(Response(401, Failure("Unauthorized")))
    ELSE LET parsed == parseActivityIdFromBody(r.body)
         IN  Answered(Response(200,
                 Obj(<<Prop("ok", Bool(TRUE)),
                       Prop("receivedKeys", ObjectKeys(OrElse(r.body, EmptyObj))),
                       Prop("activityIdRaw", parsed.activityIdRaw),
                       Prop("activityIdRawType", Str(parsed.activityIdRawType)),
                       Prop("parsedActivityId", parsed.activityId),
                       Prop("parsedActivityIdType",
                            IF Truthy(parsed.activityId) THEN Str(TypeOf(parsed.activityId))
                            ELSE Null)>>)))

\* the bodies sent to the debug routes
DebugBodies ==
    {Undefined, EmptyObj, Obj(<<Prop("activityId", Str(" 42 "))>>),
     Obj(<<Prop("id", Num(9)), Prop("username", Str("ann"))>>)}

DebugRequests(method, path) == RequestsTo(Route(method, path), DebugBodies, {Undefined})

GetHealth ==
    /\ pc = "idle"
    /\ \E r \in DebugRequests("GET", "/health") : Receives(r, getHealth(r))
    /\ UNCHANGED <<pureVars, svcVars>>

GetDebugAuth ==
    /\ pc = "idle"
    /\ \E r \in DebugRequests("GET", "/debug/auth") : Receives(r, getDebugAuth(r))
    /\ UNCHANGED <<pureVars, svcVars>>

PostDebugBody ==
    /\ pc = "idle"
    /\ \E r \in DebugRequests("POST", "/debug/body") : Receives(r, postDebugBody(r))
    /\ UNCHANGED <<pureVars, svcVars>>

AllDebugRoute ==
    /\ pc = "idle"
    /\ \E method \in {"GET", "POST", "DELETE"} :
          \E r \in DebugRequests(method, "/debug/route") : Receives(r, allDebugRoute(r))
    /\ UNCHANGED <<pureVars, svcVars>>

GetDebugGarminMethods ==
    /\ pc = "idle"
    /\ \E r \in DebugRequests("GET", "/debug/garmin-methods") :
          Receives(r, getDebugGarminMethods(r))
    /\ UNCHANGED <<pureVars, svcVars>>

GetDebugGarminExports ==
    /\ pc = "idle"
    /\ \E r \in DebugRequests("GET", "/debug/garmin-exports") :
          Receives(r, getDebugGarminExports(r))
    /\ UNCHANGED <<pureVars, svcVars>>

PostDebugActivityId ==
    /\ pc = "idle"
    /\ \E r \in DebugRequests("POST", "/debug/activity-id") :
          Receives(r, postDebugActivityId(r))
    /\ UNCHANGED <<pureVars, svcVars>>

NextDebug ==
    \/ GetHealth
    \/ GetDebugAuth
    \/ PostDebugBody
    \/ AllDebugRoute
    \/ GetDebugGarminMethods
    \/ GetDebugGarminExports
    \/ PostDebugActivityId

\* the service when its first request arrives: no password login yet, or one of
\* ann at StartTime
InitService ==
    /\ fn = "none"
    /\ input = Pending
    /\ output = Pending
    /\ pc = "idle"
    /\ req = NoRequest
    /\ calls = <<>>
    /\ resp = NoRequest
    /\ frame = NewDataFrame
    /\ lastPasswordLoginAttemptByUsername \in {EmptyMap, [u \in {"ann"} |-> StartTime]}
    /\ now = StartTime

\* the requests of all routes, at one reading of the clock
NextService == NextDebug \/ NextData \/ NextCreate \/ ConnectStep

SpecService == InitService /\ [][NextService]_vars

\* the route of a request
RouteOf(r) == IF "path" \in DOMAIN r THEN r.path ELSE "/garmin/workout/create"

\* API_KEY is set and the Authorization header is "Bearer <API_KEY>"
HasTheKey(r) ==
    /\ r.apiKey.t = "string"
    /\ r.apiKey.s # ""
    /\ r.authorization = Str("Bearer " \o r.apiKey.s)

\* a request to a route other than GET /health that does not bring the key
Keyless(r) == r # NoRequest /\ RouteOf(r) # "/health" /\ ~HasTheKey(r)

\* C16: every route except GET /health is gated by the API key: a request whose
\* Authorization header is missing or is not "Bearer <API_KEY>", or that arrives
\* while API_KEY is unset, gets 401 and its handler never runs: no Garmin client
\* call is made and the cooldown map does not change for it.
C16_ApiKeyGate ==
    [][/\ Keyless(req') =>
             /\ pc' = "done"
             /\ resp' = Response(401, Failure("Unauthorized"))
             /\ calls' = <<>>
             /\ lastPasswordLoginAttemptByUsername' = lastPasswordLoginAttemptByUsername
       /\ lastPasswordLoginAttemptByUsername' # lastPasswordLoginAttemptByUsername =>
             HasTheKey(req) /\ req' = req]_vars

\* a login of ann without the key, while API_KEY is unset and the map holds a mark
C16_Witness ==
    /\ Keyless(req)
    /\ req.apiKey = Undefined
    /\ RouteOf(req) = "/garmin/connect"
    /\ GetProp(req.body, "password") = Str("pw")
    /\ pc = "done"
    /\ resp.status = 401
    /\ "ann" \in DOMAIN lastPasswordLoginAttemptByUsername

-----------------------------------------------------------------------------
(* Claims about the integer fields of the workout DSL *)

\* the steps of the workout together with the children of its repeat steps
AllStepsOf(workout) ==
    {StepsOf(workout)[i] : i \in 1..Len(StepsOf(workout))}
        \cup UNION {{StepsOf(StepsOf(workout)[i])[j] :
                        j \in 1..Len(StepsOf(StepsOf(workout)[i]))} :
                       i \in 1..Len(StepsOf(workout))}

IsPositiveInteger(v) == v.t = "number" /\ v.d = 1 /\ v.n >= 1

\* iterations of a repeat, zone of a heartRateZone or powerZone target
IntegerFieldsOf(step) ==
    (IF GetProp(step, "type") = Str("repeat") THEN {GetProp(step, "iterations")} ELSE {})
        \cup (IF OptGet(OptGet(step, "target"), "type") \in {Str("heartRateZone"), Str("powerZone")}
              THEN {GetProp(GetProp(step, "target"), "zone")}
              ELSE {})

\* C21: a workout that validateWorkoutPayload accepts has a positive integer as the
\* iterations of every repeat step, an integer in 1..5 as the zone of every
\* heartRateZone target and a positive integer as the zone of every powerZone
\* target: a finite non-integer value such as 2.5 in one of them is rejected.
C21_IntegerFieldsEnforced ==
    (fn = "validateWorkoutPayload" /\ output = Accepted)
    => \A step \in AllStepsOf(input.workout) :
          /\ \A v \in IntegerFieldsOf(step) : IsPositiveInteger(v)
          /\ OptGet(OptGet(step, "target"), "type") = Str("heartRateZone")
                => GetProp(GetProp(step, "target"), "zone").n <= 5

-----------------------------------------------------------------------------
(* Claims about the order of the checks of validateWorkoutPayload *)

\* the verdict of validateWorkoutStep on the i-th top-level step
StepVerdict(workout, i) == validateWorkoutStep(StepsOf(workout)[i], TRUE)

\* the 1-based index of the first top-level step that is not valid, 0 when all are
FirstInvalid(workout) ==
    IF \E i \in 1..Len(StepsOf(workout)) : StepVerdict(workout, i) # Null
    THEN CHOOSE i \in 1..Len(StepsOf(workout)) :
            /\ StepVerdict(workout, i) # Null
            /\ \A j \in 1..(i - 1) : StepVerdict(workout, j) = Null
    ELSE 0

NoWorkoutObject(workout) == ~Truthy(workout) \/ ~TypeofObject(workout)

NoName(workout) ==
    \/ GetProp(workout, "name").t # "string"
    \/ Trim(GetProp(workout, "name").s) = ""

NoSport(workout) == GetProp(workout, "sport") \notin VALID_SPORTS

NoSteps(workout) == StepsOf(workout) = <<>>

\* the error of a verdict { ok: false, error }, "" for any other value
ErrorOf(v) == IF IsRejection(v) THEN GetProp(v, "error").s ELSE ""

\* C22: validateWorkoutPayload reports the first failing check in the order workout
\* object, name, sport, steps non-empty, then the steps from left to right; an error
\* in a step is reported as "Step i: ..." with i the 1-based index of the first
\* top-level step that is not valid (the enclosing repeat for an invalid child),
\* whatever the steps after it are.
C22_FirstErrorInOrder ==
    fn = "validateWorkoutPayload" =>
       IF NoWorkoutObject(input.workout)
       THEN ErrorOf(output) = "Missing workout object"
       ELSE IF NoName(input.workout)
       THEN ErrorOf(output) = "Workout name is required"
       ELSE IF NoSport(input.workout)
       THEN StartsWith(ErrorOf(output), "Invalid sport \"")
       ELSE IF NoSteps(input.workout)
       THEN ErrorOf(output) = "Workout must contain at least one step"
       ELSE IF FirstInvalid(input.workout) = 0
       THEN output = Accepted
       ELSE IF IsThrow(StepVerdict(input.workout, FirstInvalid(input.workout)))
       THEN IsThrow(output)
       ELSE ErrorOf(output)
               = "Step " \o ToString(FirstInvalid(input.workout)) \o ": "
                    \o StepVerdict(input.workout, FirstInvalid(input.workout)).s

\* a valid step, a repeat with an invalid child, an invalid step: the error names step 2
C22_Witness ==
    /\ fn = "validateWorkoutPayload"
    /\ StepsOf(input.workout) = <<WarmupStep, Repeat(Num(3), <<SprintStep>>), NumericPaceStep>>
    /\ StartsWith(ErrorOf(output), "Step 2: Invalid step type \"sprint\"")

-----------------------------------------------------------------------------
(* Claims about the merge of flattenActivityDetail *)

SixDescriptors ==
    {"summaryDTO", "metadataDTO", "activityTypeDTO", "eventTypeDTO", "timeZoneUnitDTO",
     "accessControlRuleDTO"}

\* the names of the top-level fields of a raw record that are no descriptor
TopLevelNames(raw) == OwnKeys(raw) \ SixDescriptors

\* the names of the fields of the summaryDTO of a raw record
SummaryNames(raw) ==
    IF GetProp(raw, "summaryDTO").t = "object" THEN OwnKeys(GetProp(raw, "summaryDTO")) ELSE {}

CopiedMetadataNames ==
    {"lapCount", "hasSplits", "manualActivity", "manufacturer", "favorite", "autoCalcCalories",
     "elevationCorrected", "pr"}

\* the metadataDTO field a flat name is copied from
MetadataSource(name) == IF name = "pr" THEN "personalRecord" ELSE name

\* the metadataDTO of the raw record gives the flat field of this name a value
SuppliedByMetadata(raw, name) ==
    /\ name \in CopiedMetadataNames
    /\ GetProp(raw, "metadataDTO").t = "object"
    /\ GetProp(GetProp(raw, "metadataDTO"), MetadataSource(name)) # Undefined

\* activityType is taken from activityTypeDTO: the merged value of it is falsy
FilledFromActivityTypeDTO(raw, name) ==
    /\ name = "activityType"
    /\ Truthy(GetProp(raw, "activityTypeDTO"))
    /\ ~Truthy(GetProp(GetProp(raw, "summaryDTO"), "activityType"))

-----------------------------------------------------------------------------
(* Claims about the metadataDTO fields of flattenActivityDetail *)

\* C24: of the fields of metadataDTO, flattenActivityDetail copies lapCount,
\* hasSplits, manualActivity, manufacturer, favorite, autoCalcCalories and
\* elevationCorrected under their names and personalRecord as pr, each when its value
\* is not undefined and then over a top-level or summaryDTO value of that name; a
\* field that is not copied keeps what the top level and summaryDTO give it, and no
\* other field of metadataDTO adds a key to the output.
C24_MetadataCopiedFields ==
    (/\ fn = "flattenActivityDetail"
     /\ input.raw.t = "object"
     /\ GetProp(input.raw, "metadataDTO").t = "object")
    => /\ output.t = "object"
       /\ \A name \in CopiedMetadataNames :
             IF SuppliedByMetadata(input.raw, name)
             THEN /\ HasOwn(output, name)
                  /\ GetProp(output, name)
                        = GetProp(GetProp(input.raw, "metadataDTO"), MetadataSource(name))
             ELSE /\ HasOwn(output, name)
                        <=> name \in TopLevelNames(input.raw) \cup SummaryNames(input.raw)
                  /\ name \in SummaryNames(input.raw)
                        => GetProp(output, name) = GetProp(GetProp(input.raw, "summaryDTO"), name)
                  /\ name \in TopLevelNames(input.raw) \ SummaryNames(input.raw)
                        => GetProp(output, name) = GetProp(input.raw, name)
       /\ \A name \in OwnKeys(GetProp(input.raw, "metadataDTO")) \ CopiedMetadataNames :
             HasOwn(output, name)
                => name \in TopLevelNames(input.raw) \cup SummaryNames(input.raw)

\* lapCount is at the top level, in summaryDTO and in metadataDTO, next to
\* personalRecord and isOriginal: the metadata lapCount and pr are in the result,
\* personalRecord and isOriginal are not
C24_Witness ==
    /\ fn = "flattenActivityDetail"
    /\ input.raw.t = "object"
    /\ GetProp(input.raw, "metadataDTO").t = "object"
    /\ OwnKeys(GetProp(input.raw, "metadataDTO")) = {"lapCount", "personalRecord", "isOriginal"}
    /\ "lapCount" \in TopLevelNames(input.raw) \cap SummaryNames(input.raw)
    /\ GetProp(output, "lapCount") = GetProp(GetProp(input.raw, "metadataDTO"), "lapCount")
    /\ GetProp(output, "lapCount") # GetProp(input.raw, "lapCount")
    /\ GetProp(output, "pr") = GetProp(GetProp(input.raw, "metadataDTO"), "personalRecord")
    /\ ~HasOwn(output, "personalRecord")
    /\ ~HasOwn(output, "isOriginal")

-----------------------------------------------------------------------------
(* Claims about transformSplitSummaries as a map *)

\* C25: for a list of split entries transformSplitSummaries returns a list of the
\* same length in the same order; every field of an input entry other than phase
\* (splitType included) is in the output entry with its value, and the phase of the
\* output entry is the value computed from the splitType of the input entry, also
\* when the input entry has a field named phase.
C25_PureMapWithComputedPhase ==
    (/\ fn = "transformSplitSummaries"
     /\ input.splitSummaries.t = "array"
     /\ \A i \in 1..Len(input.splitSummaries.a) : IsSplitEntry(input.splitSummaries.a[i]))
    => /\ output.t = "array"
       /\ Len(output.a) = Len(input.splitSummaries.a)
       /\ \A i \in 1..Len(output.a) :
             /\ \A name \in OwnKeys(input.splitSummaries.a[i]) \ {"phase"} :
                   /\ HasOwn(output.a[i], name)
                   /\ GetProp(output.a[i], name) = GetProp(input.splitSummaries.a[i], name)
             /\ GetProp(output.a[i], "phase")
                   = splitPhase(GetProp(input.splitSummaries.a[i], "splitType"))

-----------------------------------------------------------------------------
(* Claims about the laps and the groups of buildWorkoutResponse *)

LapNoiseFields ==
    {"lengthDTOs", "connectIQMeasurement", "messageIndex", "bmrCalories", "minPower"}

\* the i-th lap of the response
OutputLap(i) == GetProp(output, "laps").a[i]

\* C26: the laps of the response are as many as the input laps and in their order;
\* every key of an output lap is in WORKOUT_LAP_FIELDS and has the value of the
\* input lap at the same position; lengthDTOs, connectIQMeasurement, messageIndex,
\* bmrCalories and minPower are in no output lap; and every key of an object group
\* is in the field list of the group and has the value of the flat record.
C26_CuratedLapsAndGroups ==
    (fn = "buildWorkoutResponse" /\ input.flat.t = "object")
    => /\ output.t = "object"
       /\ GetProp(output, "laps").t = "array"
       /\ Len(GetProp(output, "laps").a) = Len(input.laps.a)
       /\ \A i \in 1..Len(input.laps.a) :
             /\ OwnKeys(OutputLap(i)) \subseteq Range(WORKOUT_LAP_FIELDS)
             /\ OwnKeys(OutputLap(i)) \cap LapNoiseFields = {}
             /\ \A name \in OwnKeys(OutputLap(i)) :
                   /\ HasOwn(input.laps.a[i], name)
                   /\ GetProp(OutputLap(i), name) = GetProp(input.laps.a[i], name)
       /\ \A group \in ObjectGroups :
             \A name \in OwnKeys(GetProp(output, group)) :
                /\ name \in Range(GroupFieldList(group))
                /\ HasOwn(input.flat, name)
                /\ GetProp(GetProp(output, group), name) = GetProp(input.flat, name)

\* two laps, the first with the five noise fields: it keeps lapIndex, distance and
\* averagePower; the flat record has bmrCalories, which is in no group
C26_Witness ==
    /\ fn = "buildWorkoutResponse"
    /\ input.flat.t = "object"
    /\ HasOwn(input.flat, "bmrCalories")
    /\ HasOwn(input.flat, "minPower")
    /\ Len(input.laps.a) = 2
    /\ input.laps.a[1] = NoisyLap
    /\ OwnKeys(input.laps.a[2]) = {"distance", "lengthDTOs"}
    /\ OwnKeys(OutputLap(1)) = {"lapIndex", "distance", "averagePower"}
    /\ OutputLap(2) = Obj(<<Prop("distance", GetProp(input.laps.a[2], "distance"))>>)
    /\ GetProp(output, "power") = Obj(<<Prop("minPower", GetProp(input.flat, "minPower"))>>)

-----------------------------------------------------------------------------
(* Claims about validation before compilation *)

\* the sportType of the single segment of a workout built
SegmentSportType(built) == GetProp(GetProp(built, "workoutSegments").a[1], "sportType")

\* C27: for every workout that validateWorkoutPayload accepts, buildGarminWorkout
\* returns a workout, not null and not an exception, whose sportType is not null, at
\* the top level and in its segment: what the create route hands to createWorkout
\* after a passed validation is a workout with a sport.
C27_ValidationSufficient ==
    (fn = "buildGarminWorkout" /\ validateWorkoutPayload(input.workout) = Accepted)
    => /\ output.t = "object"
       /\ GetProp(output, "sportType").t = "object"
       /\ SegmentSportType(output) = GetProp(output, "sportType")
       /\ Len(BuiltSteps) = Len(StepsOf(input.workout))

\* an accepted cycling workout is built with the cycling sport type and one step
C27_Witness ==
    /\ fn = "buildGarminWorkout"
    /\ GetProp(input.workout, "sport") = Str("cycling")
    /\ validateWorkoutPayload(input.workout) = Accepted
    /\ output.t = "object"
    /\ GetProp(output, "sportType") = GetProp(SPORT_TYPE_MAP, "cycling")
    /\ Len(BuiltSteps) = 1

-----------------------------------------------------------------------------
(* Two requests to POST /garmin/connect in flight at once: each handler runs from
   an await to the next without interruption, and the two share the cooldown map
   and the clock. The requests carry no tokenJson: they go straight to the gate. *)

Handlers == {1, 2}

\* milliseconds after StartTime at which the clock is read
ConcurrentElapsed == {0, 5000, 20000, 600000, 605000}

ConcurrentTimes == {StartTime + e : e \in ConcurrentElapsed}

ConcurrentRequests ==
    {Request(Authorized[1], Authorized[2], Route("POST", "/garmin/connect"),
             Obj(<<Prop("username", Str(u)), Prop("password", Str("pw"))>>)) :
        u \in {"ann", "bob"}}

\* what a handler remembers of its login(): when it was called, when it resolved
LoginEvent(what, at) == [what |-> what, at |-> at]

\* the time of the event what of handler h
EventTime(h, what) == (CHOOSE e \in Range(frame[h]) : e.what = what).at

Happened(h, what) == \E e \in Range(frame[h]) : e.what = what

InitConcurrent ==
    /\ fn = "none"
    /\ input = Pending
    /\ output = Pending
    /\ pc = [h \in Handlers |-> "idle"]
    /\ req = [h \in Handlers |-> NoRequest]
    /\ calls = [h \in Handlers |-> <<>>]
    /\ resp = [h \in Handlers |-> NoRequest]
    /\ frame = [h \in Handlers |-> <<>>]
    /\ lastPasswordLoginAttemptByUsername = EmptyMap
    /\ now = StartTime

\* handler h moves to position p with response r after making the calls made
HandlerBecomes(h, p, r, made) ==
    /\ pc' = [pc EXCEPT ![h] = p]
    /\ resp' = [resp EXCEPT ![h] = r]
    /\ calls' = [calls EXCEPT ![h] = calls[h] \o made]

\* a request arrives at handler h: requireApiKey, the credentials, the cooldown
\* gate and, when the gate is open, the call of login()
ConcurrentPostGarminConnect(h) ==
    /\ pc[h] = "idle"
    /\ \E r \in ConcurrentRequests :
          /\ req' = [req EXCEPT ![h] = r]
          /\ HandlerBecomes(h, postGarminConnect(r).pc, postGarminConnect(r).resp,
                            postGarminConnect(r).calls)
          /\ frame' = [frame EXCEPT ![h] =
                          IF postGarminConnect(r).pc = "connect.login"
                          THEN <<LoginEvent("called", now)>> ELSE <<>>]
    /\ UNCHANGED <<pureVars, svcVars>>

\* login() of handler h resolves before its timer: markPasswordLoginAttempt, then
\* exportToken is called
ConcurrentLoginResolves(h) ==
    /\ pc[h] = "connect.login"
    /\ now - EventTime(h, "called") < GARMIN_LOGIN_TIMEOUT_MS
    /\ HandlerBecomes(h, "connect.exportAfterLogin", resp[h],
                      <<Call("markPasswordLoginAttempt", getUsernameFromReq(req[h].body)),
                        Call("exportToken", Undefined)>>)
    /\ lastPasswordLoginAttemptByUsername'
          = markPasswordLoginAttempt(getUsernameFromReq(req[h].body).s)
    /\ frame' = [frame EXCEPT ![h] = Append(frame[h], LoginEvent("resolved", now))]
    /\ UNCHANGED <<pureVars, now, req>>

ConcurrentLoginRejects(h) ==
    /\ pc[h] = "connect.login"
    /\ now - EventTime(h, "called") < GARMIN_LOGIN_TIMEOUT_MS
    /\ \E e \in RemoteErrors : HandlerBecomes(h, "done", connectCatch(e), <<>>)
    /\ UNCHANGED <<pureVars, svcVars, req, frame>>

\* the timer of withTimeout fires: GARMIN_LOGIN_TIMEOUT_MS have passed since the call
ConcurrentLoginTimesOut(h) ==
    /\ pc[h] = "connect.login"
    /\ now - EventTime(h, "called") >= GARMIN_LOGIN_TIMEOUT_MS
    /\ HandlerBecomes(h, "done", connectCatch(GarminTimeoutError(GARMIN_LOGIN_TIMEOUT_MS)), <<>>)
    /\ UNCHANGED <<pureVars, svcVars, req, frame>>

ConcurrentExportResolves(h) ==
    /\ pc[h] = "connect.exportAfterLogin"
    /\ HandlerBecomes(h, "done",
                      Response(200, Obj(<<Prop("ok", Bool(TRUE)),
                                          Prop("tokenJson", RefreshedToken)>>)),
                      <<>>)
    /\ UNCHANGED <<pureVars, svcVars, req, frame>>

ConcurrentExportRejects(h) ==
    /\ pc[h] = "connect.exportAfterLogin"
    /\ \E e \in RemoteErrors : HandlerBecomes(h, "done", connectCatch(e), <<>>)
    /\ UNCHANGED <<pureVars, svcVars, req, frame>>

\* time passes while the handlers wait
ConcurrentTick ==
    /\ \E t \in ConcurrentTimes : t > now /\ now' = t
    /\ UNCHANGED <<pureVars, httpVars, lastPasswordLoginAttemptByUsername>>

NextConcurrent ==
    \/ \E h \in Handlers : ConcurrentPostGarminConnect(h)
    \/ \E h \in Handlers : ConcurrentLoginResolves(h)
    \/ \E h \in Handlers : ConcurrentLoginRejects(h)
    \/ \E h \in Handlers : ConcurrentLoginTimesOut(h)
    \/ \E h \in Handlers : ConcurrentExportResolves(h)
    \/ \E h \in Handlers : ConcurrentExportRejects(h)
    \/ ConcurrentTick

SpecConcurrent == InitConcurrent /\ [][NextConcurrent]_vars

\* C28: of two requests for one username, whatever the order in which their steps
\* are taken, the password logins that succeed are at least ten minutes apart: two
\* requests never both pass the cooldown gate and both complete login() inside the
\* same ten minutes.
C28_OneLoginPerWindow ==
    \A g \in Handlers : \A h \in Handlers \ {g} :
        (/\ Happened(g, "resolved")
         /\ Happened(h, "resolved")
         /\ getUsernameFromReq(req[g].body) = getUsernameFromReq(req[h].body)
         /\ EventTime(g, "resolved") <= EventTime(h, "resolved"))
        => EventTime(h, "resolved") - EventTime(g, "resolved") >= PASSWORD_LOGIN_COOLDOWN_MS

-----------------------------------------------------------------------------
(* withTimeout(promise, ms): the promise passed in, the timer, Promise.race and
   the finally callback. A settlement queues the reaction of Promise.race as a
   microtask; timers and the settlement of the promise by the outside world are
   macrotasks, which run only when no microtask is waiting. *)

PendingPromise == [state |-> "pending"]
Fulfilled(value) == [state |-> "fulfilled", value |-> value]
Rejected(reason) == [state |-> "rejected", value |-> reason]

\* the microtasks: the reaction of Promise.race to a settled input, the finally callback
RaceJob(settled) == [job |-> "race", with |-> settled]
FinallyJob == [job |-> "finally", with |-> PendingPromise]

\* the locals of one call: the promise passed in, the timeout promise, the promise
\* of Promise.race, the timer behind timeoutId, the microtask queue
TimeoutFrame(promise, timeout, race, timeoutId, jobs) ==
    [promise |-> promise, timeout |-> timeout, race |-> race, timeoutId |-> timeoutId,
     jobs |-> jobs]

\* milliseconds after the call at which the clock is read
TimeoutElapsed == {0, 5000, 10000, 15000, 20000}

FulfilmentValues == {Str("ok"), Undefined}

\* the promise passed in: pending, or settled before the call
PromisesPassed ==
    {PendingPromise} \cup {Fulfilled(v) : v \in FulfilmentValues}
        \cup {Rejected(e) : e \in RemoteErrors}

TimeoutInputs ==
    {[f |-> "withTimeout", promise |-> p, ms |-> ms] :
        p \in PromisesPassed, ms \in {GARMIN_API_TIMEOUT_MS, GARMIN_LOGIN_TIMEOUT_MS}}

InitTimeout ==
    /\ fn = "none"
    /\ input \in TimeoutInputs
    /\ output = Pending
    /\ pc = "idle"
    /\ req = NoRequest
    /\ calls = <<>>
    /\ resp = NoRequest
    /\ frame = TimeoutFrame(PendingPromise, PendingPromise, PendingPromise, "unset", <<>>)
    /\ lastPasswordLoginAttemptByUsername = EmptyMap
    /\ now = StartTime

\* withTimeout is called: the timer is set, Promise.race subscribes to both
\* promises; a promise that is settled already has its reaction queued at once
CallWithTimeout ==
    /\ fn = "none"
    /\ fn' = "withTimeout"
    /\ pc' = "withTimeout"
    /\ calls' = <<Call("setTimeout", Num(input.ms))>>
                    \o (IF input.promise = PendingPromise THEN <<>>
                        ELSE <<Call("promise", input.promise)>>)
    /\ frame' = TimeoutFrame(input.promise, PendingPromise, PendingPromise, "armed",
                             IF input.promise = PendingPromise THEN <<>>
                             ELSE <<RaceJob(input.promise)>>)
    /\ UNCHANGED <<input, output, req, resp, svcVars>>

\* the promise passed in settles to settled: the reaction of Promise.race is queued
PromiseSettles(settled) ==
    /\ frame' = [frame EXCEPT !.promise = settled, !.jobs = <<RaceJob(settled)>>]
    /\ calls' = Append(calls, Call("promise", settled))

PromiseFulfils ==
    /\ fn = "withTimeout"
    /\ frame.promise = PendingPromise
    /\ frame.jobs = <<>>
    /\ \E v \in FulfilmentValues : PromiseSettles(Fulfilled(v))
    /\ UNCHANGED <<pureVars, pc, req, resp, svcVars>>

PromiseRejects ==
    /\ fn = "withTimeout"
    /\ frame.promise = PendingPromise
    /\ frame.jobs = <<>>
    /\ \E e \in RemoteErrors : PromiseSettles(Rejected(e))
    /\ UNCHANGED <<pureVars, pc, req, resp, svcVars>>

\* ms have passed and the timer is set: its callback rejects the timeout promise
TimerFires ==
    /\ frame.timeoutId = "armed"
    /\ now - StartTime >= input.ms
    /\ frame.jobs = <<>>
    /\ frame' = [frame EXCEPT !.timeoutId = "fired",
                              !.timeout = Rejected(GarminTimeoutError(input.ms)),
                              !.jobs = <<RaceJob(Rejected(GarminTimeoutError(input.ms)))>>]
    /\ calls' = Append(calls, Call("timeout", Rejected(GarminTimeoutError(input.ms))))
    /\ UNCHANGED <<pureVars, pc, req, resp, svcVars>>

\* a reaction of Promise.race that settles its promise again and again
RaceReactsLastWins ==
    /\ frame.jobs # <<>>
    /\ Head(frame.jobs).job = "race"
    /\ frame' = [frame EXCEPT !.race = Head(frame.jobs).with,
                              !.jobs = Append(Tail(frame.jobs), FinallyJob)]
    /\ UNCHANGED <<pureVars, pc, req, calls, resp, svcVars>>

\* a reaction of Promise.race runs: the first one settles the promise of the race
\* and queues the finally callback, a later one does nothing
RaceReacts ==
    /\ frame.jobs # <<>>
    /\ Head(frame.jobs).job = "race"
    /\ frame' = IF frame.race = PendingPromise
                THEN [frame EXCEPT !.race = Head(frame.jobs).with,
                                   !.jobs = Append(Tail(frame.jobs), FinallyJob)]
                ELSE [frame EXCEPT !.jobs = Tail(frame.jobs)]
    /\ UNCHANGED <<pureVars, pc, req, calls, resp, svcVars>>

\* the finally callback runs: clearTimeout(timeoutId), and the promise returned
\* settles as the race did
FinallyRuns ==
    /\ frame.jobs # <<>>
    /\ Head(frame.jobs).job = "finally"
    /\ frame' = [frame EXCEPT !.jobs = Tail(frame.jobs),
                              !.timeoutId = IF frame.timeoutId = "armed" THEN "cleared"
                                            ELSE frame.timeoutId]
    /\ calls' = Append(calls, Call("clearTimeout", Num(input.ms)))
    /\ output' = frame.race
    /\ UNCHANGED <<fn, input, pc, req, resp, svcVars>>

\* time passes between two macrotasks
Elapse ==
    /\ fn = "withTimeout"
    /\ frame.jobs = <<>>
    /\ \E e \in TimeoutElapsed : StartTime + e > now /\ now' = StartTime + e
    /\ UNCHANGED <<pureVars, httpVars, lastPasswordLoginAttemptByUsername>>

NextTimeout ==
    \/ CallWithTimeout
    \/ PromiseFulfils
    \/ PromiseRejects
    \/ TimerFires
    \/ RaceReacts
    \/ FinallyRuns
    \/ Elapse

SpecTimeout == InitTimeout /\ [][NextTimeout]_vars

\* the event loop runs every microtask and every timer that is due
SpecTimeoutFair == SpecTimeout /\ WF_vars(RaceReacts) /\ WF_vars(FinallyRuns) /\ WF_vars(TimerFires)
                      /\ WF_vars(CallWithTimeout) /\ WF_vars(Elapse)

-----------------------------------------------------------------------------
(* Claims about withTimeout *)

\* the settlements of the two sides, in the order they happened
Settlements == SelectSeq(calls, LAMBDA c : c.fn \in {"promise", "timeout"})

ClearTimeouts == SelectSeq(calls, LAMBDA c : c.fn = "clearTimeout")

\* the promise returned is settled with the first settlement of the two sides; the
\* timer was cleared once, and after the promise won it does not fire; the timer
\* fires only when ms have passed and rejects with the GarminTimeoutError of ms
FirstSettlementWins ==
    /\ Len(ClearTimeouts) <= 1
    /\ \A i \in 1..Len(Settlements) :
          Settlements[i].fn = "timeout" =>
             /\ now - StartTime >= input.ms
             /\ Settlements[i].arg = Rejected(GarminTimeoutError(input.ms))
    /\ output # Pending =>
          /\ Settlements # <<>>
          /\ output = Settlements[1].arg
          /\ Len(ClearTimeouts) = 1
          /\ frame.timeoutId = (IF Settlements[1].fn = "promise" THEN "cleared" ELSE "fired")
          /\ Settlements[1].fn = "promise" =>
                \A i \in 1..Len(Settlements) : Settlements[i].fn = "promise"

\* C29: the promise that withTimeout returns settles, and once: with the fulfilment
\* value or the rejection reason of the promise passed in when that settles first,
\* with GarminTimeoutError(ms) when the timer fires first after ms; the timer is
\* cleared after the settlement in each case, and a later settlement of the other
\* side leaves the outcome as it is.
C29_SettlesOnceWithFirst ==
    /\ []FirstSettlementWins
    /\ [][output # Pending => output' = output]_vars
    /\ <>(output # Pending)

\* the timer fired first and the promise was fulfilled afterwards: the outcome is
\* still the GarminTimeoutError
C29_Witness ==
    /\ output = Rejected(GarminTimeoutError(input.ms))
    /\ frame.promise = Fulfilled(Str("ok"))
    /\ frame.jobs = <<>>
    /\ Len(Settlements) = 2
    /\ Len(ClearTimeouts) = 1

-----------------------------------------------------------------------------
(* parsePaceToMps: when it returns null, and what it returns otherwise *)

\* the part parses as a finite non-negative number
ParsesNonNegative(part) ==
    LET v == StringToNumber(part) IN NumberIsFinite(v) /\ ~IsNegative(v)

IsZeroNumber(v) == ~IsSci(v) /\ v.n = 0

\* the cases in which the result is said to be null: the string does not
\* split into two parts, a part is no finite non-negative number, or
\* minutes * 60 + seconds is not above 0
SaidToBeNull(s) ==
    LET parts == Split(s, ":")
    IN  \/ Len(parts) # 2
        \/ ~ParsesNonNegative(parts[1])
        \/ ~ParsesNonNegative(parts[2])
        \/ IsZeroNumber(StringToNumber(parts[1])) /\ IsZeroNumber(StringToNumber(parts[2]))

\* minutes * 60 + seconds of a string whose parts are integers of the model
TotalSeconds(s) ==
    LET parts == Split(s, ":")
    IN  StringToNumber(parts[1]).n * 60 + StringToNumber(parts[2]).n

====
